---- MODULE Spec2Model ----
(***************************************************************************)
(* The activation engine of conda/activate.py: the search-path editor, the *)
(* activate / stack / deactivate / reactivate builders and the shell that  *)
(* evaluates the instruction set a builder returns.                        *)
(*                                                                         *)
(* Representation.  A file-system path is the sequence of its components   *)
(* ("/opt/conda/bin" is <<"opt", "conda", "bin">>); an empty component is  *)
(* what a doubled or trailing separator leaves, and the empty sequence is  *)
(* the empty string.  The value of PATH is the sequence of its entries.    *)
(* The value of CONDA_SHLVL is a sequence of characters, a digit string    *)
(* being one number and a blank being the number Blank.  A variable name   *)
(* is a pair <<name, index>>: <<"CONDA_PREFIX", 0>> is CONDA_PREFIX and    *)
(* <<"CONDA_PREFIX_", 2>> is CONDA_PREFIX_2.  A command-line argument is a *)
(* text like any other: a word without a separator ("activate", "base",    *)
(* "--stack") is a sequence of one component, and every text of two or     *)
(* more components holds a separator.                                      *)
(***************************************************************************)
EXTENDS Integers, Sequences, FiniteSets, TLC

VARIABLES
    on_win,     \* sys.platform == "win32"
    shell,      \* the dialect whose activator runs
    changeps1,  \* context.changeps1
    environ,    \* the shell's variables, which the activator snapshots
    result,     \* the instruction set the last builder returned
    hist,       \* one record per level pushed and not yet popped
    edit,       \* a call of the search-path editor: its arguments and value
    isdirs,     \* the directories of the file system
    call,       \* a call of the renderer, of execute or of main: its arguments and value
    files,      \* the files of the file system and what each holds
    stdout,     \* what the process has written to its standard output
    stderr,     \* what the process has written to its standard error
    shells,     \* the shells that invoke the engine side by side
    plan,       \* the plan of conda init: its steps and their results
    run         \* the run of that plan: the passes made, the step each is at

vars ==
    <<on_win, shell, changeps1, environ, result, hist, edit, isdirs, call,
      files, stdout, stderr, shells, plan, run>>

----------------------------------------------------------------------------
(* Bounds of the model *)

MaxLevel == 3

MaxPathLen == 2

MaxTamperLen == 3

MaxGrownLen == 10

MaxChunks == 3

MaxItems == 2

MaxArgs == 3

MaxInvocations == 1

MaxSteps == 2

----------------------------------------------------------------------------
(* The installation the engine runs in *)

root_prefix == <<"opt", "conda">>

sys_prefix == root_prefix

conda_exe == root_prefix \o <<"bin", "conda">>

EnvA == <<"opt", "conda", "envs", "A">>

EnvB == <<"env", "B">>

\* The prefixes a target resolves to: each holds a conda-meta directory.
Prefixes == {root_prefix, EnvA, EnvB}

None == <<"<None>">>

Blank == -1

Var(name) == <<name, 0>>

LevelVar(name, n) == <<name, n>>

Last(s) == s[Len(s)]

Front(s) == SubSeq(s, 1, Len(s) - 1)

----------------------------------------------------------------------------
(* Per-dialect settings: the activator classes *)

script_extension ==
    IF shell = "posix" THEN ".sh" ELSE IF shell = "csh" THEN ".csh" ELSE ".bat"

path_conversion(paths) ==
    LET
        path_identity(ps) == ps
    IN  path_identity(paths)

\* pathsep_join, read back by str.split: joining no entry gives the empty
\* string, which splits into one empty entry.
pathsep_join(path_list) == IF path_list = <<>> THEN << <<>> >> ELSE path_list

----------------------------------------------------------------------------
(* Path comparison *)

abspath(p) ==
    LET
        cwd == <<"home", "user">>
    IN
    LET kept == SelectSeq(p, LAMBDA c : c # "" /\ c # ".")
    IN  IF p = <<>> THEN cwd ELSE kept

normcase(p) ==
    LET
        lower(c) ==
            CASE c = "BIN" -> "bin"
              [] c = "B" -> "b"
              [] c = "A" -> "a"
              [] c = "Library" -> "library"
              [] c = "Scripts" -> "scripts"
              [] OTHER -> c
    IN  [i \in 1..Len(p) |-> lower(p[i])]

paths_equal(path1, path2) ==
    IF on_win
    THEN normcase(abspath(path1)) = normcase(abspath(path2))
    ELSE abspath(path1) = abspath(path2)

----------------------------------------------------------------------------
(* The search-path editor *)

\* Mutant: the first entry is compared with == instead of paths_equal.
get_starting_path_list_exact(env) ==
    LET path_split == env[Var("PATH")]
        library_bin == sys_prefix \o <<"Library", "bin">>
    IN  IF on_win /\ path_split[1] = library_bin
        THEN Tail(path_split)
        ELSE path_split

get_starting_path_list(env) ==
    LET path_split == env[Var("PATH")]
        library_bin == sys_prefix \o <<"Library", "bin">>
    IN  IF on_win /\ paths_equal(path_split[1], library_bin)
        THEN Tail(path_split)
        ELSE path_split

get_path_dirs2(prefix) ==
    IF on_win
    THEN << prefix,
            prefix \o <<"Library", "mingw-w64", "bin">>,
            prefix \o <<"Library", "usr", "bin">>,
            prefix \o <<"Library", "bin">>,
            prefix \o <<"Scripts">>,
            prefix \o <<"bin">> >>
    ELSE << prefix \o <<"bin">> >>

\* Mutant: the last entry equal to test_path is returned.
index_of_path_last(paths, test_path) ==
    LET hits == {q \in 1..Len(paths) : paths_equal(paths[q], test_path)}
    IN  IF hits = {} THEN 0 ELSE CHOOSE q \in hits : \A r \in hits : q >= r

\* The 1-based index of the first entry equal to test_path, 0 for None.
index_of_path(paths, test_path) ==
    LET hits == {q \in 1..Len(paths) : paths_equal(paths[q], test_path)}
    IN  IF hits = {} THEN 0 ELSE CHOOSE q \in hits : \A r \in hits : q <= r

\* Mutant: del path_list[first_idx:last_idx], the last entry kept.
del_slice_exclusive(path_list, first_idx, last_idx) ==
    IF last_idx - 1 < first_idx
    THEN path_list
    ELSE SubSeq(path_list, 1, first_idx - 1)
             \o SubSeq(path_list, last_idx, Len(path_list))

\* del path_list[first_idx:last_idx + 1], indices 1-based and inclusive.
del_slice(path_list, first_idx, last_idx) ==
    IF last_idx < first_idx
    THEN path_list
    ELSE SubSeq(path_list, 1, first_idx - 1)
             \o SubSeq(path_list, last_idx + 1, Len(path_list))

\* Mutant: path_list[idx + 1:idx + 1] = dirs.
insert_at_after(path_list, idx, dirs) ==
    SubSeq(path_list, 1, idx) \o dirs \o SubSeq(path_list, idx + 1, Len(path_list))

\* path_list[idx:idx] = dirs, idx 1-based.
insert_at(path_list, idx, dirs) ==
    SubSeq(path_list, 1, idx - 1) \o dirs \o SubSeq(path_list, idx, Len(path_list))

\* Mutant: the directories are appended.
add_prefix_to_path_append(prefix, starting_path_dirs) ==
    path_conversion(starting_path_dirs) \o get_path_dirs2(path_conversion(prefix))

add_prefix_to_path(prefix, starting_path_dirs) ==
    LET path_list == path_conversion(starting_path_dirs)
    IN  insert_at(path_list, 1, get_path_dirs2(path_conversion(prefix)))

\* Mutant: the new directories always go to the head of the list.
replace_prefix_in_path_head(old_prefix, new_prefix, starting_path_dirs) ==
    LET path_list == path_conversion(starting_path_dirs)
        prefix_dirs == get_path_dirs2(path_conversion(old_prefix))
        found == IF old_prefix # None THEN index_of_path(path_list, prefix_dirs[1]) ELSE 0
        last_idx == index_of_path(path_list, Last(prefix_dirs))
        removed == IF found = 0 THEN path_list ELSE del_slice(path_list, found, last_idx)
    IN  IF found # 0 /\ last_idx = 0
        THEN [raised |-> TRUE, path |-> <<>>]
        ELSE [raised |-> FALSE,
              path |-> IF new_prefix # None
                       THEN insert_at(removed, 1, get_path_dirs2(path_conversion(new_prefix)))
                       ELSE removed]

\* Mutant: the last directory is looked up and asserted before the first
\* one is known to be there.
replace_prefix_in_path_asserts_first(old_prefix, new_prefix, starting_path_dirs) ==
    LET path_list == path_conversion(starting_path_dirs)
        prefix_dirs == get_path_dirs2(path_conversion(old_prefix))
        found == IF old_prefix # None THEN index_of_path(path_list, prefix_dirs[1]) ELSE 0
        last_idx == index_of_path(path_list, Last(prefix_dirs))
        first_idx == IF found = 0 THEN 1 ELSE found
        removed == IF found = 0 THEN path_list ELSE del_slice(path_list, found, last_idx)
    IN  IF old_prefix # None /\ last_idx = 0
        THEN [raised |-> TRUE, path |-> <<>>]
        ELSE [raised |-> FALSE,
              path |-> IF new_prefix # None
                       THEN insert_at(removed, first_idx,
                                      get_path_dirs2(path_conversion(new_prefix)))
                       ELSE removed]

\* Mutant: every entry equal to one of the old directories is deleted.
replace_prefix_in_path_per_entry(old_prefix, new_prefix, starting_path_dirs) ==
    LET path_list == path_conversion(starting_path_dirs)
        prefix_dirs == get_path_dirs2(path_conversion(old_prefix))
        found == IF old_prefix # None THEN index_of_path(path_list, prefix_dirs[1]) ELSE 0
        last_idx == index_of_path(path_list, Last(prefix_dirs))
        first_idx == IF found = 0 THEN 1 ELSE found
        head == SubSeq(path_list, 1, first_idx - 1)
        rest == SelectSeq(SubSeq(path_list, first_idx, Len(path_list)),
                          LAMBDA entry : \A k \in 1..Len(prefix_dirs) :
                                             ~paths_equal(entry, prefix_dirs[k]))
        removed == IF found = 0 THEN path_list ELSE head \o rest
    IN  IF found # 0 /\ last_idx = 0
        THEN [raised |-> TRUE, path |-> <<>>]
        ELSE [raised |-> FALSE,
              path |-> IF new_prefix # None
                       THEN insert_at(removed, first_idx,
                                      get_path_dirs2(path_conversion(new_prefix)))
                       ELSE removed]

\* [raised |-> the assertion failed, path |-> the tuple returned]
replace_prefix_in_path(old_prefix, new_prefix, starting_path_dirs) ==
    LET path_list == path_conversion(starting_path_dirs)
        prefix_dirs == get_path_dirs2(path_conversion(old_prefix))
        found == IF old_prefix # None THEN index_of_path(path_list, prefix_dirs[1]) ELSE 0
        last_idx == index_of_path(path_list, Last(prefix_dirs))
        first_idx == IF found = 0 THEN 1 ELSE found
        removed == IF found = 0 THEN path_list ELSE del_slice(path_list, found, last_idx)
    IN  IF found # 0 /\ last_idx = 0
        THEN [raised |-> TRUE, path |-> <<>>]
        ELSE [raised |-> FALSE,
              path |-> IF new_prefix # None
                       THEN insert_at(removed, first_idx,
                                      get_path_dirs2(path_conversion(new_prefix)))
                       ELSE removed]

\* Mutant: the directories stay on the path.
remove_prefix_from_path_keeps(prefix, starting_path_dirs) ==
    [raised |-> FALSE, path |-> starting_path_dirs]

remove_prefix_from_path(prefix, starting_path_dirs) ==
    replace_prefix_in_path(prefix, None, starting_path_dirs)

----------------------------------------------------------------------------
(* The environment snapshot *)

Get(env, name) == IF name \in DOMAIN env THEN env[name] ELSE None

\* str.strip on a CONDA_SHLVL value
strip(v) == SelectSeq(v, LAMBDA c : c # Blank)

\* int(self.environ.get('CONDA_SHLVL', '').strip() or 0)
conda_shlvl(env) ==
    LET text == IF Var("CONDA_SHLVL") \in DOMAIN env THEN env[Var("CONDA_SHLVL")] ELSE <<>>
    IN  IF strip(text) = <<>> THEN 0 ELSE strip(text)[1]

\* '%s' % level, as the export template writes it
str(n) == <<n>>

----------------------------------------------------------------------------
(* The files of each environment's activate.d and deactivate.d.  A file    *)
(* name is <<rank, extension>>, rank being its place in lexicographic      *)
(* order.                                                                  *)

listdir(prefix, d) ==
    CASE prefix = EnvA /\ d = "activate.d" -> {<<1, ".sh">>, <<2, ".sh">>, <<1, ".bat">>, <<3, ".txt">>}
      [] prefix = EnvA /\ d = "deactivate.d" -> {<<1, ".sh">>, <<2, ".sh">>, <<1, ".bat">>}
      [] prefix = EnvB /\ d = "activate.d" -> {<<1, ".sh">>, <<2, ".bat">>}
      [] OTHER -> {}

\* Mutant: the reverse flag is ignored.
sorted_ascending(S, reverse) ==
    LET RECURSIVE order(_)
        order(T) ==
            IF T = {} THEN <<>>
            ELSE LET m == CHOOSE x \in T : \A y \in T : x[1] <= y[1]
                 IN  <<m>> \o order(T \ {m})
    IN  order(S)

\* sorted(names, reverse=reverse): the names by rank
sorted(S, reverse) ==
    LET RECURSIVE order(_)
        order(T) ==
            IF T = {} THEN <<>>
            ELSE LET m == CHOOSE x \in T : \A y \in T :
                              IF reverse THEN y[1] <= x[1] ELSE x[1] <= y[1]
                 IN  <<m>> \o order(T \ {m})
    IN  order(S)

glob(prefix, d, ext) ==
    {f \in listdir(prefix, d) : f[2] = ext}

script_paths(prefix, d, names) ==
    [i \in 1..Len(names) |-> [prefix |-> prefix, dir |-> d, file |-> names[i]]]

get_activate_scripts(prefix) ==
    path_conversion(script_paths(prefix, "activate.d",
        sorted(glob(prefix, "activate.d", script_extension), FALSE)))

get_deactivate_scripts(prefix) ==
    path_conversion(script_paths(prefix, "deactivate.d",
        sorted(glob(prefix, "deactivate.d", script_extension), TRUE)))

----------------------------------------------------------------------------
(* Labels and the prompt *)

default_env(prefix) ==
    LET
        basename(p) == IF p = <<>> THEN "" ELSE Last(p)
        dirname(p) == IF p = <<>> THEN <<>> ELSE Front(p)
    IN
    IF paths_equal(prefix, root_prefix)
    THEN <<"base">>
    ELSE IF basename(dirname(prefix)) = "envs" THEN <<basename(prefix)>> ELSE prefix

\* Mutant: the modifier is formatted whatever context.changeps1 is.
prompt_modifier_always(prefix, conda_default_env) ==
    <<"(">> \o conda_default_env \o <<") ">>

\* context.env_prompt is '({default_env}) '
prompt_modifier(prefix, conda_default_env) ==
    IF changeps1 THEN <<"(">> \o conda_default_env \o <<") ">> ELSE <<>>

\* Mutant: the previous modifier is left in the prompt.
strip_modifier_never(prompt, current_prompt_modifier) == prompt

\* A prompt is a sequence of pieces, each a literal text or one modifier.
\* re.sub(re.escape(modifier), '', prompt) drops the pieces equal to it.
strip_modifier(prompt, current_prompt_modifier) ==
    IF current_prompt_modifier = None \/ current_prompt_modifier = <<>>
    THEN prompt
    ELSE SelectSeq(prompt, LAMBDA piece : piece # current_prompt_modifier)

\* ps1.replace("'", "'\"'\"'")
escape_quotes(prompt) ==
    [i \in 1..Len(prompt) |->
        IF prompt[i] = <<"'">> THEN <<"'\"'\"'">> ELSE prompt[i]]

update_prompt(env, set_vars, conda_prompt_modifier) ==
    IF shell = "posix"
    THEN LET ps1 == IF Var("PS1") \in DOMAIN env THEN env[Var("PS1")] ELSE <<>>
             current == Get(env, Var("CONDA_PROMPT_MODIFIER"))
             head == IF conda_prompt_modifier = <<>> THEN <<>> ELSE <<conda_prompt_modifier>>
         IN  (Var("PS1") :> (head \o escape_quotes(strip_modifier(ps1, current))))
                 @@ set_vars
    ELSE IF shell = "csh"
    THEN LET prompt == IF Var("prompt") \in DOMAIN env THEN env[Var("prompt")] ELSE <<>>
             current == Get(env, Var("CONDA_PROMPT_MODIFIER"))
             head == IF conda_prompt_modifier = <<>> THEN <<>> ELSE <<conda_prompt_modifier>>
         IN  (Var("prompt") :> (head \o strip_modifier(prompt, current))) @@ set_vars
    ELSE set_vars

build_activate_shell_custom(export_vars) ==
    IF shell = "cmd.exe" /\ on_win
    THEN (Var("PYTHONIOENCODING") :> <<"GetACP">>) @@ export_vars
    ELSE export_vars

----------------------------------------------------------------------------
(* The builders.  An instruction set is a record of the five collections;  *)
(* raised names the exception that ended the builder instead.              *)

InstructionSet(unset_vars, set_vars, export_vars, deactivate_scripts, activate_scripts) ==
    [raised |-> "none",
     unset_vars |-> unset_vars,
     set_vars |-> set_vars,
     export_vars |-> export_vars,
     deactivate_scripts |-> deactivate_scripts,
     activate_scripts |-> activate_scripts]

Raised(exception) ==
    [raised |-> exception,
     unset_vars |-> <<>>,
     set_vars |-> <<>>,
     export_vars |-> <<>>,
     deactivate_scripts |-> <<>>,
     activate_scripts |-> <<>>]

NoOp == InstructionSet(<<>>, <<>>, <<>>, <<>>, <<>>)

\* Mutant: only a negative level counts as nothing active.
nothing_active_negative(conda_prefix, shlvl) == shlvl < 0

\* not conda_prefix or conda_shlvl < 1
nothing_active(conda_prefix, shlvl) ==
    conda_prefix = None \/ conda_prefix = <<>> \/ shlvl < 1

\* Mutant: the level exported is the next one, as activate exports it.
reactivate_export_vars_next(new_path, shlvl, conda_prompt_modifier) ==
    (Var("PATH") :> new_path)
        @@ (Var("CONDA_SHLVL") :> shlvl + 1)
        @@ (Var("CONDA_PROMPT_MODIFIER") :> conda_prompt_modifier)

reactivate_export_vars(new_path, shlvl, conda_prompt_modifier) ==
    (Var("PATH") :> new_path)
        @@ (Var("CONDA_SHLVL") :> shlvl)
        @@ (Var("CONDA_PROMPT_MODIFIER") :> conda_prompt_modifier)

\* Mutant: the stacked marker of the popped level is left set.
deactivate_unset_vars_keep_marker(old_conda_shlvl, old_prefix_stacked) ==
    IF old_conda_shlvl = 1
    THEN <<Var("CONDA_PREFIX"), Var("CONDA_DEFAULT_ENV"),
           Var("CONDA_PYTHON_EXE"), Var("CONDA_PROMPT_MODIFIER")>>
    ELSE <<LevelVar("CONDA_PREFIX_", old_conda_shlvl - 1)>>

\* Mutant: the record of the level returned to is left set.
deactivate_unset_vars_keep_record(old_conda_shlvl, old_prefix_stacked) ==
    IF old_conda_shlvl = 1
    THEN <<Var("CONDA_PREFIX"), Var("CONDA_DEFAULT_ENV"),
           Var("CONDA_PYTHON_EXE"), Var("CONDA_PROMPT_MODIFIER")>>
    ELSE IF old_prefix_stacked
    THEN <<LevelVar("CONDA_STACKED_", old_conda_shlvl)>>
    ELSE <<>>

\* Mutant: CONDA_PREFIX stays set when the last environment is left.
deactivate_unset_vars_keep_prefix(old_conda_shlvl, old_prefix_stacked) ==
    IF old_conda_shlvl = 1
    THEN <<Var("CONDA_DEFAULT_ENV"), Var("CONDA_PYTHON_EXE"), Var("CONDA_PROMPT_MODIFIER")>>
    ELSE IF old_prefix_stacked
    THEN <<LevelVar("CONDA_PREFIX_", old_conda_shlvl - 1),
           LevelVar("CONDA_STACKED_", old_conda_shlvl)>>
    ELSE <<LevelVar("CONDA_PREFIX_", old_conda_shlvl - 1)>>

deactivate_unset_vars(old_conda_shlvl, old_prefix_stacked) ==
    IF old_conda_shlvl = 1
    THEN <<Var("CONDA_PREFIX"), Var("CONDA_DEFAULT_ENV"),
           Var("CONDA_PYTHON_EXE"), Var("CONDA_PROMPT_MODIFIER")>>
    ELSE IF old_prefix_stacked
    THEN <<LevelVar("CONDA_PREFIX_", old_conda_shlvl - 1),
           LevelVar("CONDA_STACKED_", old_conda_shlvl)>>
    ELSE <<LevelVar("CONDA_PREFIX_", old_conda_shlvl - 1)>>

build_reactivate(env) ==
    LET conda_prefix == Get(env, Var("CONDA_PREFIX"))
        shlvl == conda_shlvl(env)
        conda_default_env ==
            IF Var("CONDA_DEFAULT_ENV") \in DOMAIN env
            THEN env[Var("CONDA_DEFAULT_ENV")]
            ELSE default_env(conda_prefix)
        new_path == replace_prefix_in_path(conda_prefix, conda_prefix,
                                           get_starting_path_list(env))
        conda_prompt_modifier == prompt_modifier(conda_prefix, conda_default_env)
        set_vars == IF changeps1 THEN update_prompt(env, <<>>, conda_prompt_modifier) ELSE <<>>
    IN  IF nothing_active(conda_prefix, shlvl)
        THEN NoOp
        ELSE IF new_path.raised
        THEN Raised("AssertionError")
        ELSE InstructionSet(
                 <<>>,
                 set_vars,
                 reactivate_export_vars(pathsep_join(new_path.path), shlvl,
                                        conda_prompt_modifier),
                 get_deactivate_scripts(conda_prefix),
                 get_activate_scripts(conda_prefix))

\* Mutant: the marker of the level below is read.
prefix_stacked_below(env, old_conda_shlvl) ==
    LevelVar("CONDA_STACKED_", old_conda_shlvl - 1) \in DOMAIN env

\* 'CONDA_STACKED_%d' % old_conda_shlvl in self.environ
prefix_stacked(env, old_conda_shlvl) ==
    LevelVar("CONDA_STACKED_", old_conda_shlvl) \in DOMAIN env

build_deactivate(env) ==
    LET old_conda_prefix == Get(env, Var("CONDA_PREFIX"))
        old_conda_shlvl == conda_shlvl(env)
        deactivate_scripts == get_deactivate_scripts(old_conda_prefix)
        new_conda_shlvl == old_conda_shlvl - 1
        new_prefix == Get(env, LevelVar("CONDA_PREFIX_", new_conda_shlvl))
        conda_default_env == default_env(new_prefix)
        conda_prompt_modifier ==
            IF old_conda_shlvl = 1 THEN <<>> ELSE prompt_modifier(new_prefix, conda_default_env)
        old_prefix_stacked == prefix_stacked(env, old_conda_shlvl)
        new_path ==
            IF old_conda_shlvl = 1 \/ old_prefix_stacked
            THEN remove_prefix_from_path(old_conda_prefix, get_starting_path_list(env))
            ELSE replace_prefix_in_path(old_conda_prefix, new_prefix,
                                        get_starting_path_list(env))
        unset_vars == deactivate_unset_vars(old_conda_shlvl, old_prefix_stacked)
        export_vars ==
            IF old_conda_shlvl = 1
            THEN (Var("PATH") :> pathsep_join(new_path.path))
                     @@ (Var("CONDA_SHLVL") :> new_conda_shlvl)
            ELSE (Var("PATH") :> pathsep_join(new_path.path))
                     @@ (Var("CONDA_SHLVL") :> new_conda_shlvl)
                     @@ (Var("CONDA_PREFIX") :> new_prefix)
                     @@ (Var("CONDA_DEFAULT_ENV") :> conda_default_env)
                     @@ (Var("CONDA_PROMPT_MODIFIER") :> conda_prompt_modifier)
        activate_scripts ==
            IF old_conda_shlvl = 1 THEN <<>> ELSE get_activate_scripts(new_prefix)
        set_vars == IF changeps1 THEN update_prompt(env, <<>>, conda_prompt_modifier) ELSE <<>>
    IN  IF nothing_active(old_conda_prefix, old_conda_shlvl)
        THEN NoOp
        ELSE IF old_conda_shlvl > 1 /\ new_prefix = None
        THEN Raised("TypeError")
        ELSE IF new_path.raised
        THEN Raised("AssertionError")
        ELSE InstructionSet(unset_vars, set_vars, export_vars,
                            deactivate_scripts, activate_scripts)

\* re.search(r'\\|/', env_name_or_prefix)
has_separator(text) == Len(text) > 1

\* abspath(expanduser(expandvars(path))): the modelled texts hold no ~ and no $
expand(path) == abspath(path)

join(path, name) == path \o <<name>>

isdir(path) == path \in isdirs

envs_dirs == {join(root_prefix, "envs")}

\* conda.base.context.locate_prefix_by_name: the environment of that name
\* under an environments directory, which the marker directory makes valid.
locate_prefix_by_name(name) ==
    LET found == {join(envs_dir, name[1]) : envs_dir \in envs_dirs}
        valid == {prefix \in found : isdir(join(prefix, "conda-meta"))}
    IN  IF valid = {}
        THEN [raised |-> "EnvironmentNotFound", prefix |-> None]
        ELSE [raised |-> "none", prefix |-> CHOOSE prefix \in valid : TRUE]

\* The first lines of _build_activate_stack: the prefix the target names.
resolve_prefix(env_name_or_prefix) ==
    LET
        ROOT_ENV_NAME == <<"base">>
    IN
    IF has_separator(env_name_or_prefix)
    THEN IF ~isdir(join(expand(env_name_or_prefix), "conda-meta"))
         THEN [raised |-> "EnvironmentLocationNotFound", prefix |-> None]
         ELSE [raised |-> "none", prefix |-> expand(env_name_or_prefix)]
    ELSE IF env_name_or_prefix \in {ROOT_ENV_NAME, <<"root">>}
    THEN [raised |-> "none", prefix |-> root_prefix]
    ELSE locate_prefix_by_name(env_name_or_prefix)

\* Mutant: entering the current environment again is a push like any other.
reenters_never(old_conda_prefix, prefix, old_conda_shlvl) == FALSE

\* old_conda_prefix == prefix and old_conda_shlvl > 0
reenters(old_conda_prefix, prefix, old_conda_shlvl) ==
    old_conda_prefix = prefix /\ old_conda_shlvl > 0

\* Mutant: the environment one level below is pushed again.
steps_back_down_never(env, prefix, old_conda_shlvl) == FALSE

\* self.environ.get('CONDA_PREFIX_%s' % (old_conda_shlvl - 1)) == prefix,
\* in the branch of old_conda_shlvl != 0
steps_back_down(env, prefix, old_conda_shlvl) ==
    /\ old_conda_shlvl # 0
    /\ Get(env, LevelVar("CONDA_PREFIX_", old_conda_shlvl - 1)) = prefix

build_activate_stack(env, env_name_or_prefix, stack) ==
    LET
        sys_executable == sys_prefix \o <<"bin", "python">>
    IN
    LET resolved == resolve_prefix(env_name_or_prefix)
        prefix == resolved.prefix
        old_conda_shlvl == conda_shlvl(env)
        new_conda_shlvl == old_conda_shlvl + 1
        old_conda_prefix == Get(env, Var("CONDA_PREFIX"))
        activate_scripts == get_activate_scripts(prefix)
        conda_default_env == default_env(prefix)
        conda_prompt_modifier == prompt_modifier(prefix, conda_default_env)
        new_path ==
            IF old_conda_shlvl = 0 \/ stack
            THEN [raised |-> FALSE,
                  path |-> add_prefix_to_path(prefix, get_starting_path_list(env))]
            ELSE replace_prefix_in_path(old_conda_prefix, prefix,
                                        get_starting_path_list(env))
        common ==
            (Var("PATH") :> pathsep_join(new_path.path))
                @@ (Var("CONDA_PREFIX") :> prefix)
                @@ (Var("CONDA_SHLVL") :> new_conda_shlvl)
                @@ (Var("CONDA_DEFAULT_ENV") :> conda_default_env)
                @@ (Var("CONDA_PROMPT_MODIFIER") :> conda_prompt_modifier)
        export_vars ==
            IF old_conda_shlvl = 0
            THEN (Var("CONDA_PYTHON_EXE") :> path_conversion(sys_executable))
                     @@ (Var("CONDA_EXE") :> path_conversion(conda_exe))
                     @@ common
            ELSE IF stack
            THEN (LevelVar("CONDA_PREFIX_", old_conda_shlvl) :> old_conda_prefix)
                     @@ (LevelVar("CONDA_STACKED_", new_conda_shlvl) :> <<"true">>)
                     @@ common
            ELSE (LevelVar("CONDA_PREFIX_", old_conda_shlvl) :> old_conda_prefix)
                     @@ common
        deactivate_scripts ==
            IF old_conda_shlvl = 0 \/ stack
            THEN <<>>
            ELSE get_deactivate_scripts(old_conda_prefix)
        set_vars == IF changeps1 THEN update_prompt(env, <<>>, conda_prompt_modifier) ELSE <<>>
    IN  IF resolved.raised # "none"
        THEN Raised(resolved.raised)
        ELSE IF reenters(old_conda_prefix, prefix, old_conda_shlvl)
        THEN build_reactivate(env)
        ELSE IF steps_back_down(env, prefix, old_conda_shlvl)
        THEN build_deactivate(env)
        ELSE IF new_path.raised
        THEN Raised("AssertionError")
        ELSE InstructionSet(<<>>, set_vars, build_activate_shell_custom(export_vars),
                            deactivate_scripts, activate_scripts)

\* Mutant: a plain activate takes the branch of --stack.
build_activate_stacking(env, env_name_or_prefix) ==
    build_activate_stack(env, env_name_or_prefix, TRUE)

build_activate(env, env_name_or_prefix) ==
    build_activate_stack(env, env_name_or_prefix, FALSE)

\* Mutant: the stack request is dropped on the way to the builder.
build_stack_replaces(env, env_name_or_prefix) ==
    build_activate_stack(env, env_name_or_prefix, FALSE)

build_stack(env, env_name_or_prefix) ==
    build_activate_stack(env, env_name_or_prefix, TRUE)

----------------------------------------------------------------------------
(* The shell evaluating the commands of an instruction set: the unsets,    *)
(* then the local sets, then the exports.  The wrapper function hands its  *)
(* prompt variable to the next invocation, so a local set is read back.    *)

Apply(env, r) ==
    LET \* what a POSIX shell reads from a single-quoted word that was
        \* written with '"'"' for each quote; csh reads the word as it is
        word(text) ==
            IF shell = "posix"
            THEN [i \in 1..Len(text) |->
                     IF text[i] = <<"'\"'\"'">> THEN <<"'">> ELSE text[i]]
            ELSE text
        unset == {r.unset_vars[i] : i \in 1..Len(r.unset_vars)}
        exported == [n \in DOMAIN r.export_vars |->
                        IF n = Var("CONDA_SHLVL")
                        THEN str(r.export_vars[n])
                        ELSE r.export_vars[n]]
        names == ((DOMAIN env) \ unset) \cup (DOMAIN r.set_vars) \cup (DOMAIN exported)
    IN  [n \in names |->
            IF n \in DOMAIN exported THEN exported[n]
            ELSE IF n \in DOMAIN r.set_vars THEN word(r.set_vars[n])
            ELSE env[n]]

----------------------------------------------------------------------------
(* The renderer.  Here a dictionary is the sequence of its items in the    *)
(* order its iterator gives them, and a command is the template with the   *)
(* arguments it is filled with; "of" names the collection it comes from.   *)

unset_var_tmpl == IF shell = "posix" THEN "\\unset %s" ELSE "@SET %s="

export_var_tmpl == IF shell = "posix" THEN "\\export %s='%s'" ELSE "@SET \"%s=%s\""

set_var_tmpl == IF shell = "posix" THEN "%s='%s'" ELSE "@SET \"%s=%s\""

run_script_tmpl == IF shell = "posix" THEN "\\. \"%s\"" ELSE "@CALL \"%s\""

\* The place of a variable's name among the names the engine uses, in the
\* order of str.
name_rank(name) ==
    CASE name = "CONDA_DEFAULT_ENV" -> 1
      [] name = "CONDA_EXE" -> 2
      [] name = "CONDA_PREFIX" -> 3
      [] name = "CONDA_PREFIX_" -> 4
      [] name = "CONDA_PROMPT_MODIFIER" -> 5
      [] name = "CONDA_PYTHON_EXE" -> 6
      [] name = "CONDA_SHLVL" -> 7
      [] name = "CONDA_STACKED_" -> 8
      [] name = "PATH" -> 9
      [] name = "PS1" -> 10
      [] name = "PYTHONIOENCODING" -> 11

\* key1 < key2 on two variable names; a level is one digit.
key_lt(key1, key2) ==
    \/ name_rank(key1[1]) < name_rank(key2[1])
    \/ name_rank(key1[1]) = name_rank(key2[1]) /\ key1[2] < key2[2]

\* sorted(iterable) of pairs whose first element is a variable name, none
\* twice: the names decide the order.
sorted_pairs(pairs) ==
    LET RECURSIVE order(_)
        order(rest) ==
            IF rest = <<>> THEN <<>>
            ELSE LET least(i) == \A j \in 1..Len(rest) : ~key_lt(rest[j][1], rest[i][1])
                     m == CHOOSE i \in 1..Len(rest) :
                              least(i) /\ \A j \in 1..(i - 1) : ~least(j)
                 IN  <<rest[m]>> \o order(SubSeq(rest, 1, m - 1) \o SubSeq(rest, m + 1, Len(rest)))
    IN  order(pairs)

\* sorted(cmds_dict.get('unset_vars', ()))
sorted_keys(keys) ==
    LET ordered == sorted_pairs([i \in 1..Len(keys) |-> <<keys[i], keys[i]>>])
    IN  [i \in 1..Len(ordered) |-> ordered[i][1]]

\* Mutant: the items are yielded in the order of insertion.
sorted_items_as_inserted(items) == items

\* sorted(iteritems(d)): no two items of a dictionary hold the same key
sorted_items(items) == sorted_pairs(items)

\* iteritems(d) of a dictionary a builder returned
iteritems(d) ==
    LET RECURSIVE items(_)
        items(keys) ==
            IF keys = {} THEN <<>>
            ELSE LET k == CHOOSE k \in keys : TRUE
                 IN  << <<k, d[k]>> >> \o items(keys \ {k})
    IN  items(DOMAIN d)

run_scripts(scripts, of) ==
    [i \in 1..Len(scripts) |-> [of |-> of, tmpl |-> run_script_tmpl, args |-> <<scripts[i]>>]]

unset_commands(keys) ==
    [i \in 1..Len(keys) |-> [of |-> "unset_vars", tmpl |-> unset_var_tmpl, args |-> <<keys[i]>>]]

set_commands(items) ==
    [i \in 1..Len(items) |-> [of |-> "set_vars", tmpl |-> set_var_tmpl, args |-> items[i]]]

export_commands(items) ==
    [i \in 1..Len(items) |-> [of |-> "export_vars", tmpl |-> export_var_tmpl, args |-> items[i]]]

\* Mutant: the setup scripts are yielded first.
yield_commands_setup_first(cmds_dict) ==
    run_scripts(cmds_dict.activate_scripts, "activate_scripts")
        \o run_scripts(cmds_dict.deactivate_scripts, "deactivate_scripts")
        \o unset_commands(sorted_keys(cmds_dict.unset_vars))
        \o set_commands(sorted_items(cmds_dict.set_vars))
        \o export_commands(sorted_items(cmds_dict.export_vars))

yield_commands(cmds_dict) ==
    run_scripts(cmds_dict.deactivate_scripts, "deactivate_scripts")
        \o unset_commands(sorted_keys(cmds_dict.unset_vars))
        \o set_commands(sorted_items(cmds_dict.set_vars))
        \o export_commands(sorted_items(cmds_dict.export_vars))
        \o run_scripts(cmds_dict.activate_scripts, "activate_scripts")

\* The dictionary a builder returned, as the renderer iterates it.
as_cmds_dict(r) ==
    [unset_vars |-> r.unset_vars,
     set_vars |-> iteritems(r.set_vars),
     export_vars |-> iteritems(r.export_vars),
     deactivate_scripts |-> r.deactivate_scripts,
     activate_scripts |-> r.activate_scripts]

----------------------------------------------------------------------------
(* The command line.  The arguments an activator is built with are None    *)
(* or a list of texts: [none |-> TRUE] or [none |-> FALSE, list |-> ...].  *)

\* remainder_args.index(text), from 1; 0 stands for ValueError
index_of_text(texts, text) ==
    IF \E i \in 1..Len(texts) : texts[i] = text
    THEN CHOOSE i \in 1..Len(texts) :
             texts[i] = text /\ \A j \in 1..(i - 1) : texts[j] # text
    ELSE 0

help_flags == {<<"-h">>, <<"--help">>, <<"/?">>}

Commands == {<<"activate">>, <<"deactivate">>, <<"reactivate">>, <<"hook">>}

ParseError(exception) ==
    [raised |-> exception, command |-> <<>>, stack |-> FALSE, env_name_or_prefix |-> <<>>]

\* Mutant: every command is given the generic help.
help_classes_generic(command) ==
    IF command \in Commands THEN "GenericHelp" ELSE "KeyError"

\* help_classes[command]
help_classes(command) ==
    CASE command = <<"activate">> -> "ActivateHelp"
      [] command = <<"deactivate">> -> "DeactivateHelp"
      [] command \in {<<"hook">>, <<"reactivate">>} -> "GenericHelp"
      [] OTHER -> "KeyError"

parse_and_set_args(arguments) ==
    LET
        \* command not in ('activate', 'deactivate', 'reactivate', 'hook')
        invalid_command(command) == command \notin Commands
    IN
    IF arguments.none
    THEN ParseError("ArgumentError")
    ELSE IF arguments.list = <<>>
    THEN ParseError("IndexError")
    ELSE LET command == arguments.list[1]
             rest == Tail(arguments.list)
             non_help_args == SelectSeq(rest, LAMBDA arg : arg \notin help_flags)
             help_requested == Len(rest) # Len(non_help_args)
             remainder_args ==
                 SelectSeq(non_help_args, LAMBDA arg : arg # <<>> /\ arg # command)
             stack_idx == index_of_text(remainder_args, <<"--stack">>)
             positional ==
                 IF stack_idx = 0 THEN remainder_args
                 ELSE SubSeq(remainder_args, 1, stack_idx - 1)
                          \o SubSeq(remainder_args, stack_idx + 1, Len(remainder_args))
         IN  IF command = <<>>
             THEN ParseError("ArgumentError")
             ELSE IF help_requested
             THEN ParseError(help_classes(command))
             ELSE IF invalid_command(command)
             THEN ParseError("ArgumentError")
             ELSE IF command = <<"activate">>
             THEN IF Len(positional) > 1
                  THEN ParseError("ArgumentError")
                  ELSE [raised |-> "none",
                        command |-> command,
                        stack |-> stack_idx # 0,
                        env_name_or_prefix |->
                            IF positional # <<>> THEN positional[1] ELSE <<"base">>]
             ELSE IF remainder_args # <<>>
             THEN ParseError("ArgumentError")
             ELSE [raised |-> "none", command |-> command,
                   stack |-> FALSE, env_name_or_prefix |-> <<>>]

\* The builder the parsed command runs; hook runs none.
builder_result(env, parsed) ==
    CASE parsed.command = <<"activate">> ->
             IF parsed.stack
             THEN build_stack(env, parsed.env_name_or_prefix)
             ELSE build_activate(env, parsed.env_name_or_prefix)
      [] parsed.command = <<"deactivate">> -> build_deactivate(env)
      [] parsed.command = <<"reactivate">> -> build_reactivate(env)

\* tempfile_extension: None where the block is written to stdout
tempfile_extension == IF shell = "cmd.exe" THEN <<".bat">> ELSE None

command_join == IF shell = "cmd.exe" /\ on_win THEN "\r\n" ELSE "\n"

\* hook_source_path: None where the dialect has no hook
hook_source_path ==
    IF shell = "cmd.exe" THEN None
    ELSE <<"conda", "shell", "etc", "profile.d", "conda.sh">>

\* context.auto_activate_base
auto_activate_base == TRUE

Separator(sep) == [of |-> "join", tmpl |-> sep, args |-> <<>>]

\* sep.join(texts)
str_join(sep, texts) ==
    LET RECURSIVE joined(_)
        joined(rest) ==
            IF rest = <<>> THEN <<>>
            ELSE (IF rest[1] = [of |-> "text", tmpl |-> "", args |-> <<>>] THEN <<>> ELSE <<rest[1]>>)
                     \o (IF Len(rest) > 1
                         THEN <<Separator(sep)>> \o joined(Tail(rest))
                         ELSE <<>>)
    IN  joined(texts)

\* What a call returns: a text, the path of a file, or nothing.
Text(pieces) == [kind |-> "text", value |-> pieces]

Path(name) == [kind |-> "path", value |-> name]

Failed(exception) ==
    [raised |-> exception, commands |-> <<>>, returned |-> [kind |-> "nothing", value |-> <<>>], written |-> <<>>]

\* Mutant: every temporary file is given the same name.
NamedTemporaryFile_fixed(existing, suffix) == {<<"tmp1">> \o suffix}

\* The names NamedTemporaryFile may give the file it creates: any name with
\* the suffix that no file has.
NamedTemporaryFile(existing, suffix) ==
    LET
        TmpStems == {"tmp1", "tmp2", "tmp3"}
    IN
    {<<stem>> \o suffix : stem \in TmpStems} \ DOMAIN existing

\* Mutant: the commands are joined without the terminating ''.
finalize_unterminated(commands, ext, name) ==
    IF ext = None
    THEN [raised |-> "none", commands |-> commands,
          returned |-> Text(str_join(command_join, commands)), written |-> <<>>]
    ELSE [raised |-> "none", commands |-> commands,
          returned |-> Path(name),
          written |-> (name :> str_join(command_join, commands))]

\* _finalize(commands, ext), where name is the name of the temporary file
finalize(commands, ext, name) ==
    LET terminated == commands \o <<[of |-> "text", tmpl |-> "", args |-> <<>>]>>
    IN  IF ext = None
        THEN [raised |-> "none", commands |-> commands,
              returned |-> Text(str_join(command_join, terminated)),
              written |-> <<>>]
        ELSE IF ext # <<>>
        THEN [raised |-> "none", commands |-> commands,
              returned |-> Path(name),
              written |-> (name :> str_join(command_join, terminated))]
        ELSE Failed("NotImplementedError")

\* hook(): the preamble, the hook's source and the activation of base
hook ==
    IF hook_source_path = None
    THEN Failed("NotImplementedError")
    ELSE [raised |-> "none", commands |-> <<>>,
          returned |->
              Text(str_join("\n",
                  <<[of |-> "hook", tmpl |-> "_hook_preamble", args |-> <<conda_exe>>],
                    [of |-> "hook", tmpl |-> "fsrc.read()", args |-> <<hook_source_path>>]>>
                  \o (IF auto_activate_base
                      THEN <<[of |-> "hook", tmpl |-> "conda activate base\n", args |-> <<>>]>>
                      ELSE <<>>))),
          written |-> <<>>]

\* Mutant: the temporary file is created before the builder runs.
execute_value_file_first(parsed, r, name) ==
    IF parsed.raised # "none"
    THEN Failed(parsed.raised)
    ELSE IF parsed.command = <<"hook">>
    THEN hook
    ELSE IF r.raised # "none"
    THEN [Failed(r.raised) EXCEPT
              !.written = IF tempfile_extension = None THEN <<>> ELSE (name :> <<>>)]
    ELSE finalize(yield_commands(as_cmds_dict(r)), tempfile_extension, name)

\* What execute returns or raises, and the file it writes.
execute_value(parsed, r, name) ==
    IF parsed.raised # "none"
    THEN Failed(parsed.raised)
    ELSE IF parsed.command = <<"hook">>
    THEN hook
    ELSE IF r.raised # "none"
    THEN Failed(r.raised)
    ELSE finalize(yield_commands(as_cmds_dict(r)), tempfile_extension, name)

\* isinstance(e, CondaError)
CondaErrors ==
    {"ArgumentError", "ActivateHelp", "DeactivateHelp", "GenericHelp",
     "EnvironmentLocationNotFound", "EnvironmentNotFound"}

\* len(argv) >= 3: the activator is given one argument at least
argv_asserted(arguments) == ~arguments.none /\ arguments.list # <<>>

\* What main returns or raises, what it prints and the file it leaves, where
\* value is what execute returned or raised.
main_value(arguments, value) ==
    IF ~argv_asserted(arguments)
    THEN [raised |-> "AssertionError", caught |-> "none", returned |-> "nothing",
          printed |-> <<>>, error |-> <<>>, written |-> <<>>]
    ELSE IF value.raised = "none"
    THEN [raised |-> "none", caught |-> "none", returned |-> "0",
          printed |-> <<value.returned>>, error |-> <<>>, written |-> value.written]
    ELSE IF value.raised \in CondaErrors
    THEN [raised |-> "none", caught |-> value.raised, returned |-> "e.return_code",
          printed |-> <<>>, error |-> <<value.raised>>, written |-> value.written]
    ELSE [raised |-> value.raised, caught |-> value.raised, returned |-> "nothing",
          printed |-> <<>>, error |-> <<>>, written |-> value.written]

----------------------------------------------------------------------------
(* The state machine *)

NoEdit == [op |-> "none", old |-> None, new |-> None, path |-> <<>>, out |-> <<>>]

NoCall == [op |-> "none", arg |-> <<>>, out |-> <<>>]

\* The process has written nothing and no file is there.
InitProcess ==
    /\ files = <<>>
    /\ stdout = <<>>
    /\ stderr = <<>>

\* No shells run side by side and conda init has no plan.
InitIdle ==
    /\ shells = <<>>
    /\ plan = <<>>
    /\ run = [pc |-> "none"]

\* Every prefix is a directory and holds its conda-meta directory.
AllDirs == Prefixes \cup {join(prefix, "conda-meta") : prefix \in Prefixes}

Configs == {<<FALSE, "posix">>, <<TRUE, "cmd.exe">>}

Init ==
    LET
        InitDirs ==
            { <<"usr", "bin">>,
              <<"opt", "conda", "Library", "BIN">>,
              <<"opt", "conda", "envs", "A", "bin", "">> }
        InitPaths == UNION {[1..n -> InitDirs] : n \in 1..MaxPathLen}
        InitLevels == {<<>>, <<Blank>>, <<0>>}
    IN
    /\ \E config \in Configs : on_win = config[1] /\ shell = config[2]
    /\ changeps1 \in BOOLEAN
    /\ \E path \in InitPaths, level \in InitLevels :
           environ = (Var("PATH") :> path)
                         @@ (IF level = <<>> THEN <<>> ELSE (Var("CONDA_SHLVL") :> level))
                         @@ (IF shell = "posix" THEN (Var("PS1") :> << <<"$ ">> >>) ELSE <<>>)
    /\ result = Raised("no builder has run")
    /\ hist = <<>>
    /\ edit = NoEdit
    /\ isdirs = AllDirs
    /\ call = NoCall
    /\ InitProcess
    /\ InitIdle

\* The level the shell is at once it has evaluated r.
LevelAfter(r) ==
    IF r.raised # "none" \/ DOMAIN r.export_vars = {}
    THEN conda_shlvl(environ)
    ELSE r.export_vars[Var("CONDA_SHLVL")]

Outcome(r) ==
    IF r.raised # "none" THEN "raise"
    ELSE IF DOMAIN r.export_vars = {} THEN "noop"
    ELSE IF LevelAfter(r) > conda_shlvl(environ) THEN "push"
    ELSE IF LevelAfter(r) < conda_shlvl(environ) THEN "pop"
    ELSE "refresh"

\* The shell evaluates what the builder returned.
Evaluate(stack, r) ==
    /\ LevelAfter(r) <= MaxLevel
    /\ result' = r
    /\ environ' = IF r.raised = "none" THEN Apply(environ, r) ELSE environ
    /\ hist' = CASE Outcome(r) = "push" ->
                        Append(hist, [prefix |-> r.export_vars[Var("CONDA_PREFIX")],
                                      stacked |-> stack /\ conda_shlvl(environ) > 0,
                                      path |-> environ[Var("PATH")],
                                      below |-> Get(environ, Var("CONDA_PREFIX"))])
                  [] Outcome(r) = "pop" -> Front(hist)
                  [] OTHER -> hist

Step(stack, r) ==
    /\ Evaluate(stack, r)
    /\ UNCHANGED <<on_win, shell, changeps1, edit, isdirs, call,
                   <<files, stdout, stderr>>, shells, <<plan, run>>>>

Activate ==
    \E target \in Prefixes : Step(FALSE, build_activate(environ, target))

Stack ==
    \E target \in Prefixes : Step(TRUE, build_stack(environ, target))

Deactivate ==
    Step(FALSE, build_deactivate(environ))

Reactivate ==
    Step(FALSE, build_reactivate(environ))

Next == Activate \/ Stack \/ Deactivate \/ Reactivate

Spec == Init /\ [][Next]_vars

----------------------------------------------------------------------------
(* Vocabulary of the properties *)

Level == conda_shlvl(environ)

PathOf(env) == env[Var("PATH")]

\* The environment once the shell has evaluated what the builder returned.
Run(env, r) == IF r.raised = "none" THEN Apply(env, r) ELSE env

\* A PATH without the first entry the engine drops on Windows: the
\* Library\bin directory the interpreter prepends at start-up.
WithoutLibraryBin(path) ==
    IF on_win /\ normcase(abspath(path[1])) = normcase(sys_prefix \o <<"Library", "bin">>)
    THEN (IF Len(path) = 1 THEN << <<>> >> ELSE Tail(path))
    ELSE path

LevelNames(env) == {n \in DOMAIN env : n[1] \in {"CONDA_PREFIX_", "CONDA_STACKED_"}}

Occurrences(path, dir) == Cardinality({q \in 1..Len(path) : paths_equal(path[q], dir)})

Exports(r, name) == r.raised = "none" /\ name \in DOMAIN r.export_vars

----------------------------------------------------------------------------
(* C1: round trip at level 0 *)

RoundTrip(env, prefix) ==
    LET entered == Run(env, build_activate(env, prefix))
    IN  Run(entered, build_deactivate(entered))

\* C1 as claimed: at level 0, for every environment E and every PATH,
\* activate(E) then deactivate() leaves PATH exactly as it was.
C1_RoundTripExact ==
    Level = 0 =>
        \A prefix \in Prefixes : PathOf(RoundTrip(environ, prefix)) = PathOf(environ)

\* C1 as amended: at level 0, activate(E) then deactivate() leaves PATH as
\* it was, except that on Windows a first entry naming the interpreter's
\* Library\bin directory is dropped.
C1_RoundTrip ==
    Level = 0 =>
        \A prefix \in Prefixes :
            /\ build_activate(environ, prefix).raised = "none"
            /\ conda_shlvl(Run(environ, build_activate(environ, prefix))) = 1
            /\ conda_shlvl(RoundTrip(environ, prefix)) = 0
            /\ PathOf(RoundTrip(environ, prefix)) = WithoutLibraryBin(PathOf(environ))

\* An activation from level 0 was followed by the deactivation that ended
\* it, and the PATH held another entry equal to the environment's directory.
C1_Witness ==
    /\ Level = 0
    /\ hist = <<>>
    /\ result.raised = "none"
    /\ Len(result.unset_vars) = 4
    /\ Var("CONDA_EXE") \in DOMAIN environ
    /\ Occurrences(PathOf(environ), EnvA \o <<"bin">>) >= 1

----------------------------------------------------------------------------
(* C2: full unwind.  hist[k] holds the PATH and the current environment    *)
(* that held just before the push that reached level k.                    *)

RECURSIVE UnwindsExactly(_, _)
UnwindsExactly(env, k) ==
    IF k = 0
    THEN /\ conda_shlvl(env) = 0
         /\ Var("CONDA_PREFIX") \notin DOMAIN env
         /\ LevelNames(env) = {}
    ELSE LET popped == Run(env, build_deactivate(env))
         IN  /\ build_deactivate(env).raised = "none"
             /\ conda_shlvl(popped) = k - 1
             /\ PathOf(popped) = hist[k].path
             /\ Get(popped, Var("CONDA_PREFIX")) = hist[k].below
             /\ UnwindsExactly(popped, k - 1)

RECURSIVE Unwinds(_, _)
Unwinds(env, k) ==
    IF k = 0
    THEN /\ conda_shlvl(env) = 0
         /\ Var("CONDA_PREFIX") \notin DOMAIN env
         /\ LevelNames(env) = {}
    ELSE LET popped == Run(env, build_deactivate(env))
         IN  /\ build_deactivate(env).raised = "none"
             /\ conda_shlvl(popped) = k - 1
             /\ PathOf(popped) =
                    (IF k = 1 THEN WithoutLibraryBin(hist[k].path) ELSE hist[k].path)
             /\ Get(popped, Var("CONDA_PREFIX")) = hist[k].below
             /\ Unwinds(popped, k - 1)

\* C2 as claimed: from any state reached from level 0 at level N, N
\* deactivations each restore the PATH and the current environment of just
\* before the matching push, and end at level 0 with the original PATH,
\* CONDA_PREFIX unset and no CONDA_PREFIX_<i> or CONDA_STACKED_<i> left.
C2_UnwindExact == Level = Len(hist) /\ UnwindsExactly(environ, Len(hist))

\* C2 as amended: the same, except that the PATH restored at level 0 is the
\* original without the Library\bin first entry the engine drops on Windows.
C2_Unwind == Level = Len(hist) /\ Unwinds(environ, Len(hist))

\* Level 3, pushed by replacing, was popped back to a level 2 that had been
\* stacked on level 1: two more deactivations are left to unwind.
C2_Witness ==
    /\ Len(hist) = 2
    /\ hist[2].stacked
    /\ result.raised = "none"
    /\ result.unset_vars = <<LevelVar("CONDA_PREFIX_", 2)>>
    /\ hist[1].prefix # hist[2].prefix

----------------------------------------------------------------------------
(* C3: stack then deactivate at any level *)

Below(env) == Get(env, LevelVar("CONDA_PREFIX_", conda_shlvl(env) - 1))

StackThenDeactivateRestores(env, target) ==
    LET level == conda_shlvl(env)
        stacked == Run(env, build_stack(env, target))
        popped == Run(stacked, build_deactivate(stacked))
    IN  /\ build_stack(env, target).raised = "none"
        /\ build_deactivate(stacked).raised = "none"
        /\ PathOf(popped) = PathOf(env)
        /\ LevelVar("CONDA_PREFIX_", level) \notin DOMAIN popped
        /\ LevelVar("CONDA_STACKED_", level + 1) \notin DOMAIN popped

\* C3 as claimed: at every level L >= 1, for every B, stack(B) then
\* deactivate() leaves PATH as before the stack, with CONDA_PREFIX_<L> and
\* CONDA_STACKED_<L+1> unset.
C3_StackPopAnyTarget ==
    Level >= 1 =>
        \A target \in Prefixes : StackThenDeactivateRestores(environ, target)

\* C3 as amended: the same for every B that is neither the current
\* environment nor the environment recorded one level below, the targets
\* for which stack(B) is a push: the push sets CONDA_PREFIX_<L> to the
\* current environment and sets CONDA_STACKED_<L+1>, and the deactivate
\* unsets both and restores PATH.
C3_StackPop ==
    Level >= 1 =>
        \A target \in Prefixes \ {Get(environ, Var("CONDA_PREFIX")), Below(environ)} :
            LET stacked == Run(environ, build_stack(environ, target))
            IN  /\ Get(stacked, LevelVar("CONDA_PREFIX_", Level))
                       = Get(environ, Var("CONDA_PREFIX"))
                /\ LevelVar("CONDA_STACKED_", Level + 1) \in DOMAIN stacked
                /\ conda_shlvl(stacked) = Level + 1
                /\ StackThenDeactivateRestores(environ, target)

\* A level above the first was stacked and then popped: the level below is
\* current again and the bookkeeping of the popped level is gone.
C3_Witness ==
    /\ Len(hist) = 2
    /\ result.raised = "none"
    /\ Len(result.unset_vars) = 2
    /\ LevelVar("CONDA_STACKED_", 3) \in {result.unset_vars[i] : i \in 1..2}
    /\ LevelVar("CONDA_STACKED_", 3) \notin DOMAIN environ

----------------------------------------------------------------------------
(* C4: the scenario at level 1 *)

\* C4: at level 1 on A, stack(B) with B different from A gives level 2,
\* PATH = B's directories followed by the whole previous PATH,
\* CONDA_PREFIX = B and CONDA_STACKED_2; one deactivate() then gives level
\* 1, CONDA_PREFIX = A and the previous PATH.
C4_StackAtLevelOne ==
    Level = 1 =>
        \A target \in Prefixes \ {Get(environ, Var("CONDA_PREFIX"))} :
            LET stacked == Run(environ, build_stack(environ, target))
                popped == Run(stacked, build_deactivate(stacked))
            IN  /\ build_stack(environ, target).raised = "none"
                /\ conda_shlvl(stacked) = 2
                /\ PathOf(stacked) = get_path_dirs2(target) \o PathOf(environ)
                /\ Get(stacked, Var("CONDA_PREFIX")) = target
                /\ LevelVar("CONDA_STACKED_", 2) \in DOMAIN stacked
                /\ build_deactivate(stacked).raised = "none"
                /\ conda_shlvl(popped) = 1
                /\ Get(popped, Var("CONDA_PREFIX")) = Get(environ, Var("CONDA_PREFIX"))
                /\ PathOf(popped) = PathOf(environ)

\* B was stacked on A at level 1.
C4_Witness ==
    /\ Len(hist) = 2
    /\ hist[2].stacked
    /\ hist[2].below = EnvA
    /\ Get(environ, Var("CONDA_PREFIX")) = EnvB
    /\ LevelVar("CONDA_STACKED_", 2) \in DOMAIN environ

----------------------------------------------------------------------------
(* C5: the directories of the active levels on PATH.  The directories of   *)
(* level i are on PATH when i is the current level or level i + 1 was      *)
(* pushed by stacking.                                                     *)

OnPath(i) == i = Len(hist) \/ hist[i + 1].stacked

RECURSIVE BlocksFrom(_)
BlocksFrom(i) ==
    IF i = 0 THEN <<>>
    ELSE (IF OnPath(i) THEN get_path_dirs2(hist[i].prefix) ELSE <<>>) \o BlocksFrom(i - 1)

\* C5 as claimed: in every reachable state each directory of each active
\* level occurs exactly once on PATH.
C5_ExactlyOnce ==
    \A i \in 1..Len(hist) :
        OnPath(i) =>
            \A q \in 1..Len(get_path_dirs2(hist[i].prefix)) :
                Occurrences(PathOf(environ), get_path_dirs2(hist[i].prefix)[q]) = 1

\* C5 as amended: in every reachable state above level 0, PATH is one block
\* of executable directories for each active level, from the current level
\* down, followed by the PATH that held at level 0 (without the Library\bin
\* first entry the engine drops on Windows).
C5_PathBlocks ==
    /\ Level = Len(hist)
    /\ Level >= 1 =>
           PathOf(environ) = BlocksFrom(Len(hist)) \o (IF on_win /\ normcase(abspath(hist[1].path[1]))
                                        = normcase(sys_prefix \o <<"Library", "bin">>)
                        THEN Tail(hist[1].path)
                        ELSE hist[1].path)

\* Level 3 replaced a level 2 that had been stacked on level 1.
C5_Witness ==
    /\ Len(hist) = 3
    /\ hist[2].stacked
    /\ ~hist[3].stacked
    /\ hist[1].prefix # hist[3].prefix

----------------------------------------------------------------------------
(* C6: level arithmetic *)

\* C6 as claimed: activate and stack export the level plus one, deactivate
\* at level >= 1 the level minus one, reactivate at level >= 1 the level;
\* the level is never negative.
C6_AlwaysIncrements ==
    /\ Level >= 0
    /\ \A target \in Prefixes, stack \in BOOLEAN :
           build_activate_stack(environ, target, stack).export_vars[Var("CONDA_SHLVL")]
               = Level + 1
    /\ Level >= 1 =>
           /\ build_deactivate(environ).export_vars[Var("CONDA_SHLVL")] = Level - 1
           /\ build_reactivate(environ).export_vars[Var("CONDA_SHLVL")] = Level

\* C6 as amended: activate(target) and stack(target) export the level plus
\* one unless, at level >= 1, the target is the current environment (the
\* level is exported unchanged) or the environment recorded one level below
\* (the level minus one is exported); deactivate at level >= 1 exports the
\* level minus one, reactivate at level >= 1 the level; the level is never
\* negative.
C6_LevelArithmetic ==
    /\ Level >= 0
    /\ Level = Len(hist)
    /\ \A target \in Prefixes, stack \in BOOLEAN :
           LET r == build_activate_stack(environ, target, stack)
           IN  /\ Exports(r, Var("CONDA_SHLVL"))
               /\ r.export_vars[Var("CONDA_SHLVL")] =
                      (IF Level > 0 /\ target = Get(environ, Var("CONDA_PREFIX")) THEN Level
                       ELSE IF Level > 0 /\ target = Below(environ) THEN Level - 1
                       ELSE Level + 1)
    /\ Level >= 1 =>
           /\ Exports(build_deactivate(environ), Var("CONDA_SHLVL"))
           /\ build_deactivate(environ).export_vars[Var("CONDA_SHLVL")] = Level - 1
           /\ Exports(build_reactivate(environ), Var("CONDA_SHLVL"))
           /\ build_reactivate(environ).export_vars[Var("CONDA_SHLVL")] = Level

\* A refresh ran at level 2: PATH, CONDA_SHLVL = 2 and the prompt modifier
\* were exported and nothing else.
C6_Witness ==
    /\ Len(hist) = 2
    /\ result.raised = "none"
    /\ DOMAIN result.export_vars
           = {Var("PATH"), Var("CONDA_SHLVL"), Var("CONDA_PROMPT_MODIFIER")}
    /\ result.export_vars[Var("CONDA_SHLVL")] = 2

----------------------------------------------------------------------------
(* C9: nothing to do below level 1 *)

\* C9: at level 0 (CONDA_SHLVL absent, blank or 0) deactivate() and
\* reactivate() return the empty instruction set and raise nothing.
C9_NoOpAtLevelZero ==
    Level = 0 =>
        /\ build_deactivate(environ) = NoOp
        /\ build_reactivate(environ) = NoOp
        /\ Run(environ, build_deactivate(environ)) = environ
        /\ Run(environ, build_reactivate(environ)) = environ

\* deactivate or reactivate ran at level 0 with a blank CONDA_SHLVL.
C9_Witness ==
    /\ result = NoOp
    /\ Var("CONDA_SHLVL") \in DOMAIN environ
    /\ environ[Var("CONDA_SHLVL")][1] = Blank

----------------------------------------------------------------------------
(* C10: activation from level 0 *)

Baseline ==
    {Var("CONDA_PYTHON_EXE"), Var("CONDA_EXE"), Var("CONDA_PREFIX"),
     Var("CONDA_DEFAULT_ENV"), Var("CONDA_PROMPT_MODIFIER"),
     Var("CONDA_SHLVL"), Var("PATH")}

FromLevelZero(r, target, previous) ==
    /\ r.raised = "none"
    /\ Baseline \subseteq DOMAIN r.export_vars
    /\ LevelNames(r.export_vars) = {}
    /\ r.export_vars[Var("CONDA_SHLVL")] = 1
    /\ r.export_vars[Var("CONDA_PREFIX")] = target
    /\ r.export_vars[Var("PATH")] = get_path_dirs2(target) \o previous
    /\ r.unset_vars = <<>>
    /\ r.deactivate_scripts = <<>>

\* C10 as claimed: at level 0, activate(E) and stack(E) export
\* CONDA_SHLVL = 1, PATH = E's directories followed by the unchanged
\* previous PATH, and the baseline set with CONDA_PREFIX = E; they unset
\* nothing and schedule no teardown script.
C10_PathUnchanged ==
    Level = 0 =>
        \A target \in Prefixes, stack \in BOOLEAN :
            FromLevelZero(build_activate_stack(environ, target, stack), target,
                          PathOf(environ))

\* C10 as amended: the same, the previous PATH entries following E's
\* directories being unchanged except that on Windows a first entry naming
\* the interpreter's Library\bin directory is dropped.
C10_FromLevelZero ==
    Level = 0 =>
        \A target \in Prefixes, stack \in BOOLEAN :
            FromLevelZero(build_activate_stack(environ, target, stack), target,
                          IF on_win /\ normcase(abspath(PathOf(environ)[1]))
                                           = normcase(sys_prefix \o <<"Library", "bin">>)
                          THEN Tail(PathOf(environ))
                          ELSE PathOf(environ))

\* An activation from level 0 ran, on a PATH of two entries.
C10_Witness ==
    /\ Len(hist) = 1
    /\ Len(hist[1].path) = 2
    /\ result.raised = "none"
    /\ Var("CONDA_PYTHON_EXE") \in DOMAIN result.export_vars
    /\ PathOf(environ) = result.export_vars[Var("PATH")]

----------------------------------------------------------------------------
(* Reactivation on a PATH edited from outside: the shell is at level 1 on  *)
(* some environment and its PATH is any short list of that environment's   *)
(* first and last executable directory and a foreign directory.            *)

InitTampered ==
    LET
        TamperDirs(prefix) ==
            { <<"usr", "bin">>, get_path_dirs2(prefix)[1], Last(get_path_dirs2(prefix)) }
        TamperPaths(prefix) == UNION {[1..n -> TamperDirs(prefix)] : n \in 1..MaxTamperLen}
    IN
    /\ \E config \in Configs : on_win = config[1] /\ shell = config[2]
    /\ changeps1 \in BOOLEAN
    /\ isdirs = AllDirs
    /\ \E prefix \in Prefixes : \E path \in TamperPaths(prefix) :
           LET clean == (Var("PATH") :> << <<"usr", "bin">> >>)
                            @@ (IF shell = "posix" THEN (Var("PS1") :> << <<"$ ">> >>) ELSE <<>>)
               active == Run(clean, build_activate(clean, prefix))
           IN  /\ environ = [active EXCEPT ![Var("PATH")] = path]
               /\ hist = << [prefix |-> prefix, stacked |-> FALSE,
                             path |-> PathOf(clean), below |-> None] >>
    /\ result = Raised("no builder has run")
    /\ edit = NoEdit
    /\ call = NoCall
    /\ InitProcess
    /\ InitIdle

ReactivateTampered ==
    /\ Len(PathOf(environ)) <= MaxGrownLen
    /\ Reactivate

SpecTampered == InitTampered /\ [][ReactivateTampered]_vars

\* C7 as claimed: at level >= 1, for every PATH content, reactivate()
\* succeeds and schedules the current environment's teardown and setup
\* scripts, and a second reactivate() leaves the PATH of the first.
C7_ReactivateIdempotent ==
    Level >= 1 =>
        LET first == build_reactivate(environ)
            once == Run(environ, first)
            second == build_reactivate(once)
        IN  /\ first.raised = "none"
            /\ first.deactivate_scripts
                   = get_deactivate_scripts(Get(environ, Var("CONDA_PREFIX")))
            /\ first.activate_scripts
                   = get_activate_scripts(Get(environ, Var("CONDA_PREFIX")))
            /\ second.raised = "none"
            /\ PathOf(Run(once, second)) = PathOf(once)

----------------------------------------------------------------------------
(* Calls of the search-path editor on paths built from chunks: a foreign   *)
(* directory, the whole block of environment A, A's first directory alone  *)
(* and A's last directory alone, written with a trailing separator.        *)

RECURSIVE Flatten(_)
Flatten(chunks) == IF chunks = <<>> THEN <<>> ELSE Head(chunks) \o Flatten(Tail(chunks))

InitEditor ==
    LET
        Chunks ==
            { << <<"usr", "bin">> >>,
              << <<"usr", "local", "bin">> >>,
              get_path_dirs2(EnvA),
              << get_path_dirs2(EnvA)[1] >>,
              << Last(get_path_dirs2(EnvA)) \o <<"">> >> }
        EditPaths == {Flatten(chunks) : chunks \in UNION {[1..n -> Chunks] : n \in 0..MaxChunks}}
    IN
    /\ \E config \in Configs : on_win = config[1] /\ shell = config[2]
    /\ changeps1 = FALSE
    /\ environ = (Var("PATH") :> << <<"usr", "bin">> >>)
    /\ result = Raised("no builder has run")
    /\ hist = <<>>
    /\ \E old \in {EnvA, None}, new \in {EnvA, EnvB, None}, path \in EditPaths :
           edit = [op |-> "none", old |-> old, new |-> new, path |-> path, out |-> <<>>]
    /\ isdirs = AllDirs
    /\ call = NoCall
    /\ InitProcess
    /\ InitIdle

Replace ==
    /\ edit.op = "none"
    /\ edit' = [edit EXCEPT !.op = "replace",
                            !.out = replace_prefix_in_path(edit.old, edit.new, edit.path)]
    /\ UNCHANGED <<on_win, shell, changeps1, environ, result, hist, isdirs, call,
                   <<files, stdout, stderr>>, shells, <<plan, run>>>>

NextEditor == Replace

SpecEditor == InitEditor /\ [][NextEditor]_vars

\* dirs lie at path[i], path[i + 1], ... entry by entry.
BlockAt(path, i, dirs) ==
    /\ i + Len(dirs) - 1 <= Len(path)
    /\ \A k \in 1..Len(dirs) : paths_equal(path[i + k - 1], dirs[k])

Replaced(path, i, old, new) ==
    SubSeq(path, 1, i - 1) \o get_path_dirs2(new)
        \o SubSeq(path, i + Len(get_path_dirs2(old)), Len(path))

\* C8 as claimed: when old's directories are a contiguous block starting at
\* index i, replace(old, new, path) is the path with new's directories
\* starting at index i and every other entry in place.
C8_PositionalAnyBlock ==
    (edit.op = "replace" /\ edit.old # None /\ edit.new # None) =>
        \A i \in 1..Len(edit.path) :
            BlockAt(edit.path, i, get_path_dirs2(edit.old)) =>
                /\ ~edit.out.raised
                /\ edit.out.path = Replaced(edit.path, i, edit.old, edit.new)

\* C8 as amended: the same when no entry before index i equals old's first
\* or last executable directory, so that the block is the first place
\* either of them occurs.
C8_Positional ==
    (edit.op = "replace" /\ edit.old # None /\ edit.new # None) =>
        \A i \in 1..Len(edit.path) :
            (/\ BlockAt(edit.path, i, get_path_dirs2(edit.old))
             /\ \A q \in 1..(i - 1) :
                    /\ ~paths_equal(edit.path[q], get_path_dirs2(edit.old)[1])
                    /\ ~paths_equal(edit.path[q], Last(get_path_dirs2(edit.old))))
            => /\ ~edit.out.raised
               /\ edit.out.path = Replaced(edit.path, i, edit.old, edit.new)

\* The block of A stood between two foreign directories
\* and B's directories took its place.
C8_Witness ==
    /\ edit.op = "replace"
    /\ edit.old = EnvA
    /\ edit.new = EnvB
    /\ edit.path = << <<"usr", "bin">> >> \o get_path_dirs2(EnvA) \o << <<"usr", "local", "bin">> >>
    /\ edit.out.path = << <<"usr", "bin">> >> \o get_path_dirs2(EnvB) \o << <<"usr", "local", "bin">> >>

----------------------------------------------------------------------------
(* The renderer on its own: every instruction set of up to MaxItems        *)
(* variables in each collection, in every order of insertion.              *)

InjectiveSeqs(S, n) ==
    {q \in UNION {[1..k -> S] : k \in 0..n} :
        \A i, j \in 1..Len(q) : i # j => q[i] # q[j]}

InitRender ==
    LET
        UnsetNames == {Var("CONDA_PREFIX"), LevelVar("CONDA_PREFIX_", 1), LevelVar("CONDA_STACKED_", 2)}
        SetNames == {Var("PS1"), Var("PATH")}
        ExportNames == {Var("PATH"), Var("CONDA_SHLVL"), Var("CONDA_PREFIX"), LevelVar("CONDA_PREFIX_", 1)}
        ItemsOf(keys) == [i \in 1..Len(keys) |-> <<keys[i], <<"value">>>>]
    IN
    /\ \E config \in Configs : on_win = config[1] /\ shell = config[2]
    /\ changeps1 = TRUE
    /\ environ = (Var("PATH") :> << <<"usr", "bin">> >>)
    /\ result = Raised("no builder has run")
    /\ hist = <<>>
    /\ edit = NoEdit
    /\ isdirs = AllDirs
    /\ InitProcess
    /\ InitIdle
    /\ \E unset_vars \in InjectiveSeqs(UnsetNames, MaxItems),
          set_vars \in InjectiveSeqs(SetNames, MaxItems),
          export_vars \in InjectiveSeqs(ExportNames, MaxItems),
          deactivate_scripts \in {<<>>, get_deactivate_scripts(EnvA)},
          activate_scripts \in {<<>>, get_activate_scripts(EnvA)} :
           call = [op |-> "none",
                   arg |-> [unset_vars |-> unset_vars,
                            set_vars |-> ItemsOf(set_vars),
                            export_vars |-> ItemsOf(export_vars),
                            deactivate_scripts |-> deactivate_scripts,
                            activate_scripts |-> activate_scripts],
                   out |-> <<>>]

Render ==
    /\ call.op = "none"
    /\ call' = [call EXCEPT !.op = "render", !.out = yield_commands(call.arg)]
    /\ UNCHANGED <<on_win, shell, changeps1, environ, result, hist, edit, isdirs,
                   <<files, stdout, stderr>>, shells, <<plan, run>>>>

NextRender == Render

SpecRender == InitRender /\ [][NextRender]_vars

Rendered == call.op = "render"

----------------------------------------------------------------------------
(* C11: the rendering order *)

\* The commands out[from + 1 .. from + n]
Segment(out, from, n) == SubSeq(out, from + 1, from + n)

\* C11: the commands rendered for an instruction set are all its teardown
\* script invocations in their order, then all its unsets, then all its
\* local sets, then all its exports, then all its setup script invocations
\* in their order; so no setup script comes before an unset or an export
\* and no teardown script comes after one.
C11_RenderingOrder ==
    Rendered =>
        LET cmds == call.arg
            out == call.out
            d == Len(cmds.deactivate_scripts)
            u == Len(cmds.unset_vars)
            l == Len(cmds.set_vars)
            e == Len(cmds.export_vars)
            a == Len(cmds.activate_scripts)
        IN  /\ Len(out) = d + u + l + e + a
            /\ Segment(out, 0, d) = run_scripts(cmds.deactivate_scripts, "deactivate_scripts")
            /\ \A i \in (d + 1)..(d + u) :
                   out[i].of = "unset_vars" /\ out[i].tmpl = unset_var_tmpl
            /\ {out[i].args[1] : i \in (d + 1)..(d + u)}
                   = {cmds.unset_vars[i] : i \in 1..u}
            /\ \A i \in (d + u + 1)..(d + u + l) :
                   out[i].of = "set_vars" /\ out[i].tmpl = set_var_tmpl
            /\ {out[i].args : i \in (d + u + 1)..(d + u + l)}
                   = {cmds.set_vars[i] : i \in 1..l}
            /\ \A i \in (d + u + l + 1)..(d + u + l + e) :
                   out[i].of = "export_vars" /\ out[i].tmpl = export_var_tmpl
            /\ {out[i].args : i \in (d + u + l + 1)..(d + u + l + e)}
                   = {cmds.export_vars[i] : i \in 1..e}
            /\ Segment(out, d + u + l + e, a)
                   = run_scripts(cmds.activate_scripts, "activate_scripts")

\* An instruction set with something in each of the five collections has
\* been rendered.
C11_Witness ==
    /\ Rendered
    /\ call.arg.deactivate_scripts # <<>>
    /\ call.arg.unset_vars # <<>>
    /\ call.arg.set_vars # <<>>
    /\ call.arg.export_vars # <<>>
    /\ call.arg.activate_scripts # <<>>
    /\ call.out[Len(call.out)].of = "activate_scripts"

----------------------------------------------------------------------------
(* C12: sorted by variable name *)

Orderings(q) ==
    {p \in [1..Len(q) -> {q[i] : i \in 1..Len(q)}] :
        \A i \in 1..Len(q) : \E j \in 1..Len(q) : p[j] = q[i]}

\* The instruction sets holding the same variables and values as cmds,
\* inserted in any order.
Reordered(cmds) ==
    {[cmds EXCEPT !.unset_vars = unset_vars,
                  !.set_vars = set_vars,
                  !.export_vars = export_vars] :
        unset_vars \in Orderings(cmds.unset_vars),
        set_vars \in Orderings(cmds.set_vars),
        export_vars \in Orderings(cmds.export_vars)}

\* C12: in the rendered output the unset commands, the local-set commands
\* and the export commands each come in ascending order of variable name,
\* and every instruction set holding the same variables and values in
\* another order of insertion renders to the same output.
C12_SortedByName ==
    Rendered =>
        /\ \A i, j \in 1..Len(call.out) :
               (/\ i < j
                /\ call.out[i].of = call.out[j].of
                /\ call.out[i].of \in {"unset_vars", "set_vars", "export_vars"})
               => key_lt(call.out[i].args[1], call.out[j].args[1])
        /\ \A other \in Reordered(call.arg) : yield_commands(other) = call.out

\* An instruction set whose exports and unsets were inserted in descending
\* order of name has been rendered.
C12_Witness ==
    /\ Rendered
    /\ Len(call.arg.export_vars) >= 2
    /\ key_lt(call.arg.export_vars[2][1], call.arg.export_vars[1][1])
    /\ Len(call.arg.unset_vars) >= 2
    /\ key_lt(call.arg.unset_vars[2], call.arg.unset_vars[1])
    /\ key_lt(call.out[Len(call.out) - 1].args[1], call.out[Len(call.out)].args[1])

----------------------------------------------------------------------------
(* C13: entering the current environment again *)

\* The ways of naming a target: its path, its path with a trailing
\* separator, its name, and the aliases of the base environment.
Targets ==
    Prefixes
        \cup {join(prefix, "") : prefix \in Prefixes}
        \cup {<<"base">>, <<"root">>, <<"A">>}

Resolves(target, prefix) ==
    resolve_prefix(target).raised = "none" /\ resolve_prefix(target).prefix = prefix

ExportsLevelName(r) ==
    \E n \in DOMAIN r.export_vars : n[1] \in {"CONDA_PREFIX_", "CONDA_STACKED_"}

\* C13: above level 0, activate(target) and stack(target) of a target that
\* resolves to the current CONDA_PREFIX return the instruction set of
\* reactivate(): the level exported is the current one, no CONDA_PREFIX_<i>
\* and no CONDA_STACKED_<i> is exported and nothing is unset.
C13_ReenterIsRefresh ==
    Level > 0 =>
        \A target \in Targets, stack \in BOOLEAN :
            Resolves(target, Get(environ, Var("CONDA_PREFIX"))) =>
                LET r == build_activate_stack(environ, target, stack)
                IN  /\ r = build_reactivate(environ)
                    /\ r.raised = "none"
                    /\ r.export_vars[Var("CONDA_SHLVL")] = Level
                    /\ ~ExportsLevelName(r)
                    /\ r.unset_vars = <<>>

\* At level 2 the current environment was the target of activate.
C13_Witness ==
    /\ Level = 2
    /\ result = build_activate(environ, Get(environ, Var("CONDA_PREFIX")))
    /\ result.raised = "none"
    /\ result.export_vars[Var("CONDA_SHLVL")] = 2
    /\ Len(hist) = 2

----------------------------------------------------------------------------
(* C14: stepping back down *)

\* C14: above level 0, activate(target) and stack(target) of a target that
\* resolves to the environment recorded one level below return the
\* instruction set of deactivate(): the level exported is the current one
\* minus one, the record of the level below (and the stacked marker of the
\* current level, if set) is unset and no record is exported.
C14_StepBackDown ==
    Level > 0 =>
        \A target \in Targets, stack \in BOOLEAN :
            Resolves(target, Below(environ)) =>
                LET r == build_activate_stack(environ, target, stack)
                    unset == {r.unset_vars[i] : i \in 1..Len(r.unset_vars)}
                IN  /\ r = build_deactivate(environ)
                    /\ r.raised = "none"
                    /\ r.export_vars[Var("CONDA_SHLVL")] = Level - 1
                    /\ r.export_vars[Var("CONDA_PREFIX")] = Below(environ)
                    /\ LevelVar("CONDA_PREFIX_", Level - 1) \in unset
                    /\ LevelVar("CONDA_STACKED_", Level) \in DOMAIN environ
                           => LevelVar("CONDA_STACKED_", Level) \in unset
                    /\ ~ExportsLevelName(r)

\* From level 3 the environment of level 2 was the target of stack, and
\* the shell is back at level 2 on it.
C14_Witness ==
    /\ Level = 2
    /\ Len(hist) = 2
    /\ result.raised = "none"
    /\ result.unset_vars = <<LevelVar("CONDA_PREFIX_", 2), LevelVar("CONDA_STACKED_", 3)>>
    /\ result.export_vars[Var("CONDA_PREFIX")] = hist[2].prefix

----------------------------------------------------------------------------
(* C15: a push above level 0 *)

ExportsStackedMarker(r) ==
    \E n \in DOMAIN r.export_vars : n[1] = "CONDA_STACKED_"

\* What both kinds of push export and schedule at level L on current.
PushesOnto(r, target, current) ==
    /\ r.raised = "none"
    /\ r.unset_vars = <<>>
    /\ Exports(r, LevelVar("CONDA_PREFIX_", Level))
    /\ r.export_vars[LevelVar("CONDA_PREFIX_", Level)] = current
    /\ r.export_vars[Var("CONDA_PREFIX")] = target
    /\ r.export_vars[Var("CONDA_SHLVL")] = Level + 1
    /\ r.activate_scripts = get_activate_scripts(target)

\* C15: above level 0, for a target that is neither the current environment
\* nor the one recorded below it: stack(target) exports the target's
\* directories followed by the whole PATH, exports CONDA_STACKED_<L+1> and
\* schedules no teardown script; activate(target) exports the PATH with the
\* current environment's directories replaced by the target's, exports no
\* stacked marker and schedules the current environment's teardown
\* scripts; both export CONDA_PREFIX_<L> holding the current environment
\* and schedule the target's setup scripts.
C15_PushAboveZero ==
    Level > 0 =>
        \A target \in Prefixes \ {Get(environ, Var("CONDA_PREFIX")), Below(environ)} :
            LET current == Get(environ, Var("CONDA_PREFIX"))
                n == Len(get_path_dirs2(current))
                path == PathOf(environ)
                stacked == build_stack(environ, target)
                replaced == build_activate(environ, target)
            IN  /\ PushesOnto(stacked, target, current)
                /\ stacked.export_vars[Var("PATH")] = get_path_dirs2(target) \o path
                /\ Exports(stacked, LevelVar("CONDA_STACKED_", Level + 1))
                /\ stacked.deactivate_scripts = <<>>
                /\ PushesOnto(replaced, target, current)
                /\ SubSeq(path, 1, n) = get_path_dirs2(current)
                /\ replaced.export_vars[Var("PATH")]
                       = get_path_dirs2(target) \o SubSeq(path, n + 1, Len(path))
                /\ ~ExportsStackedMarker(replaced)
                /\ replaced.deactivate_scripts = get_deactivate_scripts(current)

\* Level 2 was stacked on level 1, and level 3 replaced level 2, which was
\* environment A and has teardown scripts.
C15_Witness ==
    /\ Level = 3
    /\ Len(hist) = 3
    /\ hist[2].stacked
    /\ ~hist[3].stacked
    /\ hist[2].prefix = EnvA
    /\ result.raised = "none"
    /\ Exports(result, LevelVar("CONDA_PREFIX_", 2))
    /\ result.deactivate_scripts # <<>>
    /\ result.deactivate_scripts = get_deactivate_scripts(EnvA)

----------------------------------------------------------------------------
(* C16: deactivate at level 1 *)

Elements(q) == {q[i] : i \in 1..Len(q)}

\* The PATH without its first n entries, as the export writes it.
PathAfter(path, n) == pathsep_join(SubSeq(path, n + 1, Len(path)))

\* C16: at level 1 deactivate() exports the PATH without the current
\* environment's directories and CONDA_SHLVL = 0 and nothing else, unsets
\* CONDA_PREFIX, CONDA_DEFAULT_ENV, CONDA_PYTHON_EXE and
\* CONDA_PROMPT_MODIFIER, schedules the current environment's teardown
\* scripts and no setup script.
C16_DeactivateAtLevelOne ==
    Level = 1 =>
        LET current == Get(environ, Var("CONDA_PREFIX"))
            n == Len(get_path_dirs2(current))
            path == PathOf(environ)
            r == build_deactivate(environ)
        IN  /\ r.raised = "none"
            /\ SubSeq(path, 1, n) = get_path_dirs2(current)
            /\ DOMAIN r.export_vars = {Var("PATH"), Var("CONDA_SHLVL")}
            /\ r.export_vars[Var("PATH")] = PathAfter(path, n)
            /\ r.export_vars[Var("CONDA_SHLVL")] = 0
            /\ Elements(r.unset_vars)
                   = {Var("CONDA_PREFIX"), Var("CONDA_DEFAULT_ENV"),
                      Var("CONDA_PYTHON_EXE"), Var("CONDA_PROMPT_MODIFIER")}
            /\ r.deactivate_scripts = get_deactivate_scripts(current)
            /\ r.activate_scripts = <<>>
            /\ LevelNames(Run(environ, r)) = {}

\* deactivate() ran at level 1 on environment A, which has teardown scripts.
C16_Witness ==
    /\ Level = 0
    /\ hist = <<>>
    /\ result.raised = "none"
    /\ Len(result.unset_vars) = 4
    /\ result.deactivate_scripts = get_deactivate_scripts(EnvA)
    /\ result.deactivate_scripts # <<>>
    /\ Var("CONDA_PREFIX") \notin DOMAIN environ

----------------------------------------------------------------------------
(* C17: deactivate above level 1 *)

\* C17: at level L > 1 deactivate() takes the prior environment from
\* CONDA_PREFIX_<L-1>; if CONDA_STACKED_<L> is set it exports the PATH
\* without the current environment's directories and unsets the marker,
\* otherwise it exports the PATH with them replaced by the prior
\* environment's; it unsets CONDA_PREFIX_<L-1>, exports PATH, CONDA_SHLVL =
\* L-1, CONDA_PREFIX = the prior environment, CONDA_DEFAULT_ENV and
\* CONDA_PROMPT_MODIFIER and nothing else, and schedules the current
\* environment's teardown scripts and the prior environment's setup scripts.
C17_DeactivateAboveLevelOne ==
    Level > 1 =>
        LET current == Get(environ, Var("CONDA_PREFIX"))
            prior == Get(environ, LevelVar("CONDA_PREFIX_", Level - 1))
            stacked == LevelVar("CONDA_STACKED_", Level) \in DOMAIN environ
            n == Len(get_path_dirs2(current))
            path == PathOf(environ)
            r == build_deactivate(environ)
        IN  /\ r.raised = "none"
            /\ prior = hist[Level - 1].prefix
            /\ SubSeq(path, 1, n) = get_path_dirs2(current)
            /\ DOMAIN r.export_vars
                   = {Var("PATH"), Var("CONDA_SHLVL"), Var("CONDA_PREFIX"),
                      Var("CONDA_DEFAULT_ENV"), Var("CONDA_PROMPT_MODIFIER")}
            /\ r.export_vars[Var("PATH")]
                   = (IF stacked
                      THEN PathAfter(path, n)
                      ELSE get_path_dirs2(prior) \o SubSeq(path, n + 1, Len(path)))
            /\ r.export_vars[Var("CONDA_SHLVL")] = Level - 1
            /\ r.export_vars[Var("CONDA_PREFIX")] = prior
            /\ r.export_vars[Var("CONDA_DEFAULT_ENV")] = default_env(prior)
            /\ r.export_vars[Var("CONDA_PROMPT_MODIFIER")]
                   = prompt_modifier(prior, default_env(prior))
            /\ Elements(r.unset_vars)
                   = {LevelVar("CONDA_PREFIX_", Level - 1)}
                         \cup (IF stacked THEN {LevelVar("CONDA_STACKED_", Level)} ELSE {})
            /\ r.deactivate_scripts = get_deactivate_scripts(current)
            /\ r.activate_scripts = get_activate_scripts(prior)

\* deactivate() ran at level 3, which had replaced level 2, and set up
\* environment A again at level 2.
C17_Witness ==
    /\ Level = 2
    /\ Len(hist) = 2
    /\ hist[2].prefix = EnvA
    /\ result.raised = "none"
    /\ result.unset_vars = <<LevelVar("CONDA_PREFIX_", 2)>>
    /\ result.export_vars[Var("CONDA_PREFIX")] = EnvA
    /\ result.activate_scripts = get_activate_scripts(EnvA)
    /\ result.activate_scripts # <<>>

----------------------------------------------------------------------------
(* C18: the life of the level records *)

\* C18: in every state reachable from level 0, at level L: CONDA_PREFIX_<i>
\* is set exactly for i in 1..L-1 and holds the environment that was
\* current at level i; CONDA_STACKED_<i> is set exactly for the levels
\* i <= L that were pushed with stack; CONDA_PREFIX holds the environment of
\* level L; and deactivate above level 1 finds its prior environment.
C18_LevelRecords ==
    /\ Level = Len(hist)
    /\ \A n \in DOMAIN environ :
           n[1] = "CONDA_PREFIX_" => n[2] \in 1..(Level - 1)
    /\ \A i \in 1..(Level - 1) :
           /\ LevelVar("CONDA_PREFIX_", i) \in DOMAIN environ
           /\ environ[LevelVar("CONDA_PREFIX_", i)] = hist[i].prefix
    /\ \A n \in DOMAIN environ :
           n[1] = "CONDA_STACKED_" => (n[2] \in 1..Level /\ hist[n[2]].stacked)
    /\ \A i \in 1..Level :
           hist[i].stacked => LevelVar("CONDA_STACKED_", i) \in DOMAIN environ
    /\ Level >= 1 => Get(environ, Var("CONDA_PREFIX")) = hist[Level].prefix
    /\ Level > 1 =>
           /\ build_deactivate(environ).raised = "none"
           /\ build_deactivate(environ).export_vars[Var("CONDA_PREFIX")]
                  = hist[Level - 1].prefix

\* The shell is back at level 2, which was stacked on level 1, after a pop
\* from level 3: the records of levels 1 and 2 are all that is left.
C18_Witness ==
    /\ Level = 2
    /\ Len(hist) = 2
    /\ hist[2].stacked
    /\ result.raised = "none"
    /\ LevelVar("CONDA_PREFIX_", 2) \in Elements(result.unset_vars)
    /\ LevelNames(environ) = {LevelVar("CONDA_PREFIX_", 1), LevelVar("CONDA_STACKED_", 2)}

----------------------------------------------------------------------------
(* Targets named in every way, on file systems where any prefix may lack   *)
(* its conda-meta directory.                                               *)

NamedTargets == Targets \cup {<<"ghost">>, <<"env", "ghost">>}

InitResolve ==
    LET
        FileSystems ==
            {Prefixes \cup {join(prefix, "conda-meta") : prefix \in marked} :
                marked \in SUBSET Prefixes}
    IN
    /\ \E config \in Configs : on_win = config[1] /\ shell = config[2]
    /\ changeps1 = TRUE
    /\ environ = (Var("PATH") :> << <<"usr", "bin">> >>)
                     @@ (IF shell = "posix" THEN (Var("PS1") :> << <<"$ ">> >>) ELSE <<>>)
    /\ result = Raised("no builder has run")
    /\ hist = <<>>
    /\ edit = NoEdit
    /\ isdirs \in FileSystems
    /\ call = NoCall
    /\ InitProcess
    /\ InitIdle

ActivateNamed ==
    \E target \in NamedTargets : Step(FALSE, build_activate(environ, target))

StackNamed ==
    \E target \in NamedTargets : Step(TRUE, build_stack(environ, target))

NextResolve == ActivateNamed \/ StackNamed \/ Deactivate

SpecResolve == InitResolve /\ [][NextResolve]_vars

----------------------------------------------------------------------------
(* C19: a target without its marker directory *)

\* The path a target names, whether or not it is an environment.
ResolvedPath(target) ==
    IF has_separator(target) THEN expand(target)
    ELSE IF target \in {<<"base">>, <<"root">>} THEN root_prefix
    ELSE join(CHOOSE envs_dir \in envs_dirs : TRUE, target[1])

NotFound == {"EnvironmentLocationNotFound", "EnvironmentNotFound"}

\* C19: activate(target) and stack(target) raise an environment-not-found
\* error and return no instruction set whenever the path the target
\* resolves to holds no conda-meta directory, whether the target is a
\* literal path, an environment name or the base/root alias.
C19_NotFoundWithoutMarker ==
    \A target \in NamedTargets, stack \in BOOLEAN :
        ~isdir(join(ResolvedPath(target), "conda-meta")) =>
            build_activate_stack(environ, target, stack).raised \in NotFound

----------------------------------------------------------------------------
(* execute on every command line of up to MaxArgs arguments *)

\* The script an earlier invocation left behind.
StaleFiles == (<<"tmp1", ".bat">> :> <<>>)

InitParse ==
    LET
        Words ==
            {<<"activate">>, <<"deactivate">>, <<"reactivate">>, <<"hook">>, <<"frob">>,
             <<>>, <<"--stack">>, <<"-h">>, <<"--help">>, <<"/?">>, <<"A">>, EnvB,
             <<"env", "ghost">>}
        CommandLines ==
            {[none |-> TRUE, list |-> <<>>]}
                \cup {[none |-> FALSE, list |-> list] :
                         list \in UNION {[1..n -> Words] : n \in 0..MaxArgs}}
    IN
    /\ \E config \in Configs : on_win = config[1] /\ shell = config[2]
    /\ changeps1 = TRUE
    /\ environ = (Var("PATH") :> << <<"usr", "bin">> >>)
                     @@ (IF shell = "posix" THEN (Var("PS1") :> << <<"$ ">> >>) ELSE <<>>)
    /\ result = Raised("no builder has run")
    /\ hist = <<>>
    /\ edit = NoEdit
    /\ isdirs = AllDirs
    /\ files = StaleFiles
    /\ stdout = <<>>
    /\ stderr = <<>>
    /\ InitIdle
    /\ \E arguments \in CommandLines :
           call = [op |-> "none", arg |-> arguments, out |-> <<>>]

\* The names the temporary file of this invocation may get.
TmpNames ==
    IF tempfile_extension = None THEN {None}
    ELSE NamedTemporaryFile(files, tempfile_extension)

\* activator.execute(), and the shell evaluating what it returned
Execute ==
    /\ call.op = "none"
    /\ \E name \in TmpNames, parsed \in {parse_and_set_args(call.arg)} :
       \E runs \in {parsed.raised = "none" /\ parsed.command # <<"hook">>} :
       \E r \in {IF runs THEN builder_result(environ, parsed) ELSE result} :
       \E value \in {execute_value(parsed, r, name)} :
           /\ call' = [call EXCEPT !.op = "execute", !.out = value]
           /\ files' = value.written @@ files
           /\ IF runs
              THEN Evaluate(parsed.stack, r)
              ELSE UNCHANGED <<environ, result, hist>>
    /\ UNCHANGED <<on_win, shell, changeps1, edit, isdirs, stdout, stderr, shells, <<plan, run>>>>

\* main(argv), and the shell evaluating what it printed
Main ==
    /\ call.op = "none"
    /\ \E name \in TmpNames, parsed \in {parse_and_set_args(call.arg)} :
       \E runs \in {/\ argv_asserted(call.arg)
                    /\ parsed.raised = "none"
                    /\ parsed.command # <<"hook">>} :
       \E r \in {IF runs THEN builder_result(environ, parsed) ELSE result} :
       \E out \in {main_value(call.arg, execute_value(parsed, r, name))} :
           /\ call' = [call EXCEPT !.op = "main", !.out = out]
           /\ files' = out.written @@ files
           /\ stdout' = stdout \o out.printed
           /\ stderr' = stderr \o out.error
           /\ IF runs
              THEN Evaluate(parsed.stack, r)
              ELSE UNCHANGED <<environ, result, hist>>
    /\ UNCHANGED <<on_win, shell, changeps1, edit, isdirs, shells, <<plan, run>>>>

NextParse == Execute \/ Main

SpecParse == InitParse /\ [][NextParse]_vars

----------------------------------------------------------------------------
(* C20: the command lines that are argument errors *)

Flags == help_flags \cup {<<"--stack">>}

\* The positional arguments that follow the command.
Positional(list) == SelectSeq(Tail(list), LAMBDA arg : arg \notin Flags)

\* A command line the claim calls an argument error.
Malformed(arguments) ==
    \/ arguments.none
    \/ arguments.list = <<>>
    \/ arguments.list[1] = <<>>
    \/ arguments.list[1] \notin Commands
    \/ arguments.list[1] = <<"activate">> /\ Len(Positional(arguments.list)) > 1
    \/ /\ arguments.list[1] \in {<<"deactivate">>, <<"reactivate">>, <<"hook">>}
       /\ Len(Positional(arguments.list)) > 0

\* C20: execute raises ArgumentError, and runs no builder, on every command
\* line whose command is missing or empty or none of activate, deactivate,
\* reactivate and hook (whatever else is given), that gives activate more
\* than one positional argument, or that gives deactivate, reactivate or
\* hook any positional argument.
C20_ArgumentErrors ==
    (call.op = "execute" /\ Malformed(call.arg)) =>
        /\ call.out.raised = "ArgumentError"
        /\ result = Raised("no builder has run")

----------------------------------------------------------------------------
(* C21: a help flag among the arguments *)

\* The command line gives one of the four commands and, after it, a help
\* flag.
HelpRequested(arguments) ==
    /\ ~arguments.none
    /\ arguments.list # <<>>
    /\ arguments.list[1] \in Commands
    /\ \E i \in 2..Len(arguments.list) :
           arguments.list[i] \in {<<"--help">>, <<"-h">>, <<"/?">>}

HelpOf(command) ==
    IF command = <<"activate">> THEN "ActivateHelp"
    ELSE IF command = <<"deactivate">> THEN "DeactivateHelp"
    ELSE "GenericHelp"

Invoked == call.op \in {"execute", "main"}

\* The exception the invocation ended in, "none" if in none.
Ended ==
    IF call.op = "main" /\ call.out.raised = "none" THEN call.out.caught
    ELSE call.out.raised

\* C21: when a help flag is among the arguments of activate, deactivate,
\* reactivate or hook, the invocation ends in that command's help outcome,
\* whatever the other arguments are, and no builder runs: no instruction
\* set is computed and the shell is as it was.
C21_HelpShortCircuits ==
    (Invoked /\ HelpRequested(call.arg)) =>
        /\ Ended = HelpOf(call.arg.list[1])
        /\ result = Raised("no builder has run")
        /\ hist = <<>>
        /\ call.out.written = <<>>

\* deactivate is given an argument it does not accept and a help flag.
C21_Witness ==
    /\ call.op = "main"
    /\ call.arg.list = << <<"deactivate">>, <<"A">>, <<"/?">> >>
    /\ call.out.caught = "DeactivateHelp"

----------------------------------------------------------------------------
(* C22: failures and what has been written *)

Failures ==
    {"ArgumentError", "ActivateHelp", "DeactivateHelp", "GenericHelp",
     "EnvironmentLocationNotFound", "EnvironmentNotFound"}

\* Every command followed by the separator of the dialect.
Block(commands) ==
    [i \in 1..(2 * Len(commands)) |->
        IF i % 2 = 1 THEN commands[(i + 1) \div 2] ELSE Separator(command_join)]

\* The files written since the invocation began.
NewFiles == DOMAIN files \ DOMAIN StaleFiles

\* The whole block of the instruction set the builder returned has been
\* emitted: to stdout, or to one new file whose path went to stdout.
Emitted ==
    /\ result.raised = "none"
    /\ LET block == Block(yield_commands(as_cmds_dict(result)))
       IN  IF tempfile_extension = None
           THEN stdout = <<Text(block)>> /\ NewFiles = {}
           ELSE \E name \in NewFiles :
                    /\ NewFiles = {name}
                    /\ files[name] = block
                    /\ stdout = <<Path(name)>>

\* The text of the hook has been written to stdout.
HookEmitted ==
    /\ call.arg.list[1] = <<"hook">>
    /\ Len(stdout) = 1
    /\ stdout[1].kind = "text"
    /\ stdout[1].value # <<>>
    /\ NewFiles = {}

\* C22: when an invocation ends in ArgumentError, in a help outcome or in
\* an environment-not-found error, nothing has been written to stdout and
\* no temporary file has been created, and main returns the return code of
\* that error; main returns 0 only when no exception was raised and the
\* whole block (or the hook's text) has been emitted.
C22_FailurePrecedesOutput ==
    /\ (Invoked /\ Ended \in Failures) =>
           /\ stdout = <<>>
           /\ files = StaleFiles
           /\ call.op = "main" =>
                  /\ call.out.raised = "none"
                  /\ call.out.returned = "e.return_code"
                  /\ stderr = <<Ended>>
    /\ (call.op = "main" /\ call.out.returned = "0") =>
           /\ Ended = "none"
           /\ Emitted \/ HookEmitted

\* cmd.exe, whose block goes to a temporary file, is asked for an
\* environment that is not there: no file is written.
C22_Witness ==
    /\ call.op = "main"
    /\ shell = "cmd.exe"
    /\ call.arg.list = << <<"activate">>, <<"env", "ghost">> >>
    /\ call.out.caught = "EnvironmentLocationNotFound"
    /\ call.out.returned = "e.return_code"
    /\ files = StaleFiles
    /\ stdout = <<>>

----------------------------------------------------------------------------
(* Two shells that invoke the engine side by side.  Each shell starts one  *)
(* process per invocation: the process copies the shell's variables, runs  *)
(* one builder on the copy and returns the block, or writes it to a new    *)
(* temporary file of the directory the shells share; the shell then        *)
(* evaluates the block, or the file at the path it was given.  The left    *)
(* shell starts with nothing active, the right one with an environment.    *)

ShellIds == {"left", "right"}

\* The shell evaluates a block, command by command.
source(env, text) ==
    LET RECURSIVE eval(_, _)
        eval(e, rest) ==
            IF rest = <<>> THEN e
            ELSE LET c == rest[1]
                     after ==
                         CASE c.of = "unset_vars" ->
                                  [n \in (DOMAIN e) \ {c.args[1]} |-> e[n]]
                           [] c.of \in {"set_vars", "export_vars"} ->
                                  (c.args[1] :>
                                      IF c.args[1] = Var("CONDA_SHLVL")
                                      THEN str(c.args[2]) ELSE c.args[2]) @@ e
                           [] OTHER -> e
                 IN  eval(after, Tail(rest))
    IN  eval(env, text)

InitShells ==
    LET
        IdleShell(env) ==
            [pc |-> "idle", environ |-> env, snapshot |-> <<>>, parsed |-> ParseError("none"),
             result |-> Raised("no builder has run"), returned |-> [kind |-> "nothing", value |-> <<>>],
             invocations |-> 0,
             alone |-> [result |-> Raised("no builder has run"), environ |-> env]]
    IN
    /\ \E config \in Configs : on_win = config[1] /\ shell = config[2]
    /\ changeps1 = TRUE
    /\ environ = (Var("PATH") :> << <<"usr", "bin">> >>)
                     @@ (IF shell = "posix" THEN (Var("PS1") :> << <<"$ ">> >>) ELSE <<>>)
    /\ result = Raised("no builder has run")
    /\ hist = <<>>
    /\ edit = NoEdit
    /\ isdirs = AllDirs
    /\ call = NoCall
    /\ InitProcess
    /\ plan = <<>>
    /\ run = [pc |-> "none"]
    /\ shells = [p \in ShellIds |->
                     IF p = "left" THEN IdleShell(environ)
                     ELSE IdleShell(Apply(environ, build_activate(environ, EnvA)))]

\* _Activator.__init__: the process copies the variables of its shell
Construct(p) ==
    LET
        \* What each shell may ask for.
        ShellCommands ==
            {[raised |-> "none", command |-> <<"activate">>, stack |-> FALSE,
              env_name_or_prefix |-> EnvA],
             [raised |-> "none", command |-> <<"activate">>, stack |-> TRUE,
              env_name_or_prefix |-> EnvB],
             [raised |-> "none", command |-> <<"activate">>, stack |-> FALSE,
              env_name_or_prefix |-> <<"env", "ghost">>],
             [raised |-> "none", command |-> <<"deactivate">>, stack |-> FALSE,
              env_name_or_prefix |-> <<>>]}
    IN
    /\ shells[p].pc = "idle"
    /\ shells[p].invocations < MaxInvocations
    /\ \E parsed \in ShellCommands :
       \E r \in {builder_result(shells[p].environ, parsed)} :
               shells' = [shells EXCEPT
                   ![p].pc = "constructed",
                   ![p].invocations = @ + 1,
                   ![p].snapshot = shells[p].environ,
                   ![p].parsed = parsed,
                   ![p].returned = [kind |-> "nothing", value |-> <<>>],
                   ![p].alone =
                       [result |-> r,
                        environ |-> IF r.raised = "none"
                                    THEN Apply(shells[p].environ, r)
                                    ELSE shells[p].environ]]
    /\ UNCHANGED <<on_win, shell, changeps1, environ, result, hist, edit, isdirs, call,
                   <<files, stdout, stderr>>, <<plan, run>>>>

\* Mutant: the builder applies the instruction set to the snapshot.
Build_in_place(p) ==
    /\ shells[p].pc = "constructed"
    /\ \E r \in {builder_result(shells[p].snapshot, shells[p].parsed)} :
           shells' = [shells EXCEPT
               ![p].pc = "built",
               ![p].result = r,
               ![p].snapshot = IF r.raised = "none" THEN Apply(@, r) ELSE @]
    /\ UNCHANGED <<on_win, shell, changeps1, environ, result, hist, edit, isdirs, call,
                   <<files, stdout, stderr>>, <<plan, run>>>>

\* build_activate, build_stack, build_deactivate: the builder reads the
\* snapshot and returns the instruction set
Build(p) ==
    /\ shells[p].pc = "constructed"
    /\ shells' = [shells EXCEPT
           ![p].pc = "built",
           ![p].result = builder_result(shells[p].snapshot, shells[p].parsed)]
    /\ UNCHANGED <<on_win, shell, changeps1, environ, result, hist, edit, isdirs, call,
                   <<files, stdout, stderr>>, <<plan, run>>>>

\* _finalize: the block is returned, or written to a new temporary file
Finalize(p) ==
    /\ shells[p].pc = "built"
    /\ \E name \in TmpNames :
       \E value \in {execute_value(shells[p].parsed, shells[p].result, name)} :
               /\ files' = value.written @@ files
               /\ shells' = [shells EXCEPT ![p].pc = "finalized",
                                           ![p].returned = value.returned]
    /\ UNCHANGED <<on_win, shell, changeps1, environ, result, hist, edit, isdirs, call,
                   stdout, stderr, <<plan, run>>>>

\* The shell evaluates the text it was given, or the file at the path.
Source(p) ==
    /\ shells[p].pc = "finalized"
    /\ LET returned == shells[p].returned
           text == CASE returned.kind = "text" -> returned.value
                     [] returned.kind = "path" -> files[returned.value]
                     [] OTHER -> <<>>
       IN  shells' = [shells EXCEPT ![p].pc = "idle",
                                    ![p].environ = source(@, text)]
    /\ UNCHANGED <<on_win, shell, changeps1, environ, result, hist, edit, isdirs, call,
                   <<files, stdout, stderr>>, <<plan, run>>>>

NextShells ==
    \E p \in ShellIds : Construct(p) \/ Build(p) \/ Finalize(p) \/ Source(p)

SpecShells == InitShells /\ [][NextShells]_vars

----------------------------------------------------------------------------
(* C23: the builders and the snapshot *)

\* The step is one in which the builder of shell p runs.
Builds(p) == shells[p].pc = "constructed" /\ shells'[p].pc = "built"

\* The builder of shell p has left the snapshot and the shell as they were.
Untouched(p) ==
    /\ shells'[p].snapshot = shells[p].snapshot
    /\ shells'[p].environ = shells[p].environ
    /\ shells'[p].result = builder_result(shells[p].snapshot, shells[p].parsed)

\* C23: a builder changes nothing of the snapshot it reads, whether it
\* returns or raises, nor any variable of the shell: the instruction set it
\* returns is the only description of change.
C23_SnapshotUnchanged ==
    [][\A p \in ShellIds : Builds(p) => Untouched(p)]_vars

\* A builder has returned an instruction set that asks for a change, and the
\* snapshot is still the copy of the shell's variables.
C23_Witness ==
    \E p \in ShellIds :
        /\ shells[p].pc = "built"
        /\ shells[p].result.raised = "none"
        /\ Var("CONDA_PREFIX") \in DOMAIN shells[p].result.export_vars
        /\ shells[p].snapshot = shells[p].environ
        /\ Apply(shells[p].snapshot, shells[p].result) # shells[p].snapshot

----------------------------------------------------------------------------
(* C24: two invocations side by side *)

\* C24: in every interleaving of the two shells' invocations, each builder
\* returns the instruction set it returns when its shell runs alone, each
\* shell ends with the variables (level, PATH, bookkeeping) it ends with
\* when it runs alone, and no step of one shell changes anything of the
\* other.
C24_NoInterference ==
    \A p \in ShellIds :
        /\ shells[p].pc \in {"built", "finalized"} =>
               /\ shells[p].result = shells[p].alone.result
               /\ shells[p].snapshot = shells[p].environ
        /\ (shells[p].pc = "idle" /\ shells[p].invocations > 0) =>
               shells[p].environ = shells[p].alone.environ

\* Both shells wrote their script before either evaluated its own, and each
\* ended at the level it asked for: one at level 1, the other at level 0.
C24_Witness ==
    /\ shell = "cmd.exe"
    /\ Cardinality(DOMAIN files) = 2
    /\ \A p \in ShellIds : shells[p].pc = "idle" /\ shells[p].invocations = 1
    /\ conda_shlvl(shells["left"].environ) = 1
    /\ shells["left"].parsed.command = <<"activate">>
    /\ conda_shlvl(shells["right"].environ) = 0
    /\ shells["right"].parsed.command = <<"deactivate">>
    /\ files[shells["left"].returned.value] # files[shells["right"].returned.value]

----------------------------------------------------------------------------
(* C25: the block that activate, deactivate and reactivate produce *)

\* The invocation ran a builder and ended in no exception.
Produced ==
    /\ Invoked
    /\ Ended = "none"
    /\ call.arg.list[1] \in {<<"activate">>, <<"deactivate">>, <<"reactivate">>}

\* What execute returned, and the text it stands for.
Returned == IF call.op = "main" THEN call.out.printed[1] ELSE call.out.returned

ProducedText ==
    IF Returned.kind = "path" THEN files[Returned.value] ELSE Returned.value

\* Text for stdout where the dialect has no temp-file extension, the path
\* of a new file holding the block where it has one.
Delivered ==
    IF tempfile_extension = None
    THEN Returned.kind = "text" /\ NewFiles = {}
    ELSE Returned.kind = "path" /\ NewFiles = {Returned.value}

----------------------------------------------------------------------------
(* conda init (conda/core/initialize.py): a plan is a list of steps, each  *)
(* the name of an operation, its target path and, once run, its result.    *)
(* The content of a file is the sequence of its parts, each a sequence of  *)
(* words.  The files under the system's directory, and those under the     *)
(* prefix when the prefix is protected, are written by a privileged        *)
(* process only.                                                           *)

NEEDS_SUDO == "needs sudo"

MODIFIED == "modified"

NO_CHANGE == "no change"

conda_sh_path == root_prefix \o <<"etc", "profile.d", "conda.sh">>

bashrc_path == <<"~", ".bashrc">>

system_path == <<"etc", "profile.d", "conda.sh">>

prompt_path == root_prefix \o <<"condacmd", "Anaconda Prompt.lnk">>

\* What conda init writes to each file.
hook_content == << <<"export CONDA_EXE">>, <<"conda.sh">> >>

conda_initialize_content == <<"# >>> conda initialize >>>", "/opt/conda">>

shortcut_content == << <<"%windir%\\System32\\cmd.exe", "conda_hook.bat">> >>

Done(value, disk) == [raised |-> "none", result |-> value, files |-> disk]

EnvironmentError(disk) == [raised |-> "EnvironmentError", result |-> "none", files |-> disk]

\* open(target_path, 'w') and the write
write(target_path, content, disk, may_write) ==
    IF may_write
    THEN Done(MODIFIED, (target_path :> content) @@ disk)
    ELSE EnvironmentError(disk)

\* Mutant: the file is written under dry-run too.
install_file_wet(target_path, file_content, disk, dry_run, may_write) ==
    IF file_content # (IF target_path \in DOMAIN disk THEN disk[target_path] ELSE <<>>)
    THEN write(target_path, file_content, disk, may_write)
    ELSE Done(NO_CHANGE, disk)

\* _install_file(target_path, file_content)
install_file(target_path, file_content, disk, dry_run, may_write) ==
    LET original_content ==
            IF target_path \in DOMAIN disk THEN disk[target_path] ELSE <<>>
    IN  IF file_content # original_content
        THEN IF ~dry_run
             THEN write(target_path, file_content, disk, may_write)
             ELSE Done(MODIFIED, disk)
        ELSE Done(NO_CHANGE, disk)

install_conda_sh(target_path, disk, dry_run, may_write) ==
    install_file(target_path, hook_content, disk, dry_run, may_write)

\* install_anaconda_prompt: the shortcut is created whatever is there
install_anaconda_prompt(target_path, disk, dry_run, may_write) ==
    IF ~dry_run
    THEN write(target_path, shortcut_content, disk, may_write)
    ELSE Done(MODIFIED, disk)

\* init_sh_user: the rc file is opened for reading first
init_sh_user(target_path, disk, dry_run, may_write) ==
    LET
        \* The rc file with its conda block replaced by the new one, or with the
        \* new block added at its end if it holds none.
        with_conda_block(rc_content) ==
            LET marked(i) == rc_content[i][1] = conda_initialize_content[1]
            IN  IF \E i \in 1..Len(rc_content) : marked(i)
                THEN [i \in 1..Len(rc_content) |->
                         IF marked(i) THEN conda_initialize_content ELSE rc_content[i]]
                ELSE rc_content \o <<conda_initialize_content>>
    IN
    IF target_path \notin DOMAIN disk
    THEN EnvironmentError(disk)
    ELSE LET rc_content == with_conda_block(disk[target_path])
         IN  IF rc_content # disk[target_path]
             THEN IF ~dry_run
                  THEN write(target_path, rc_content, disk, may_write)
                  ELSE Done(MODIFIED, disk)
             ELSE Done(NO_CHANGE, disk)

init_sh_system(target_path, disk, dry_run, may_write) ==
    LET conda_sh_system_contents ==
            IF target_path \in DOMAIN disk THEN disk[target_path] ELSE <<>>
    IN  IF conda_sh_system_contents # <<conda_initialize_content>>
        THEN IF ~dry_run
             THEN write(target_path, <<conda_initialize_content>>, disk, may_write)
             ELSE Done(MODIFIED, disk)
        ELSE Done(NO_CHANGE, disk)

\* globals()[step['function']](**step['kwargs'])
call_function(step, disk, dry_run, may_write) ==
    CASE step.function = "install_conda_sh" ->
             install_conda_sh(step.target_path, disk, dry_run, may_write)
      [] step.function = "install_anaconda_prompt" ->
             install_anaconda_prompt(step.target_path, disk, dry_run, may_write)
      [] step.function = "init_sh_user" ->
             init_sh_user(step.target_path, disk, dry_run, may_write)
      [] step.function = "init_sh_system" ->
             init_sh_system(step.target_path, disk, dry_run, may_write)

\* Mutant: the EnvironmentError is not caught and no result is recorded.
recorded_uncaught(out) == out.result

\* except EnvironmentError: result = Result.NEEDS_SUDO
recorded(out) == IF out.raised = "EnvironmentError" THEN NEEDS_SUDO ELSE out.result

\* Mutant: only a step without change is skipped.
skipped_no_change(previous_result) == previous_result = NO_CHANGE

\* previous_result in (Result.MODIFIED, Result.NO_CHANGE)
skipped(previous_result) == previous_result \in {MODIFIED, NO_CHANGE}

\* any(step['result'] == Result.NEEDS_SUDO for step in plan)
needs_sudo(steps) == \E k \in 1..Len(steps) : steps[k].result = NEEDS_SUDO

\* if not context.dry_run: run_plan_elevated(plan), which starts the
\* elevated process if a step needs it
elevates(dry_run, steps) == ~dry_run /\ needs_sudo(steps)

\* NamedTemporaryFile('w+b', suffix='.json', delete=False): the file that
\* carries the plan to the elevated process on Windows and back
temp_path == <<"tmp", "tmpplan.json">>

\* Mutant: the temporary file is left behind.
rm_rf_kept(path, disk) == disk

\* finally: if temp_path and lexists(temp_path): rm_rf(temp_path)
rm_rf(path, disk) == [p \in DOMAIN disk \ {path} |-> disk[p]]

\* conda init is started: the plan is made, no step has run.
InitPlan ==
    LET
        TargetPaths == {conda_sh_path, bashrc_path, system_path, prompt_path}
        \* What each file may hold when conda init starts; <<>> stands for no file.
        Contents(target_path) ==
            CASE target_path = conda_sh_path -> {<<>>, << <<"conda.sh of an older conda">> >>, hook_content}
              [] target_path = bashrc_path ->
                     {<<>>, << <<"alias ll">> >>,
                      << <<"alias ll">>, <<"# >>> conda initialize >>>", "/opt/older">> >>,
                      << <<"alias ll">>, conda_initialize_content >>}
              [] target_path = system_path -> {<<>>, <<conda_initialize_content>>}
              [] target_path = prompt_path -> {<<>>, shortcut_content}
        Disks ==
            {[target_path \in {t \in TargetPaths : holds[t] # <<>>} |-> holds[target_path]] :
                holds \in {h \in [TargetPaths -> UNION {Contents(t) : t \in TargetPaths}] :
                              \A t \in TargetPaths : h[t] \in Contents(t)}}
        \* The steps of make_initialize_plan the model draws its plans from; "none"
        \* is a step without a 'result' key.
        PlanSteps ==
            {[function |-> "install_conda_sh", target_path |-> conda_sh_path, result |-> "none"],
             [function |-> "init_sh_user", target_path |-> bashrc_path, result |-> "none"],
             [function |-> "init_sh_system", target_path |-> system_path, result |-> "none"]}
                \cup (IF on_win
                      THEN {[function |-> "install_anaconda_prompt", target_path |-> prompt_path,
                             result |-> "none"]}
                      ELSE {})
    IN
    /\ \E config \in Configs : on_win = config[1] /\ shell = config[2]
    /\ changeps1 = TRUE
    /\ environ = (Var("PATH") :> << <<"usr", "bin">> >>)
    /\ result = Raised("no builder has run")
    /\ hist = <<>>
    /\ edit = NoEdit
    /\ isdirs = AllDirs
    /\ call = NoCall
    /\ stdout = <<>>
    /\ stderr = <<>>
    /\ shells = <<>>
    /\ files \in Disks
    /\ plan \in InjectiveSeqs(PlanSteps, MaxSteps)
    /\ \E dry_run \in BOOLEAN, prefix_protected \in BOOLEAN :
           run = [pc |-> "run_plan", i |-> 1, dry_run |-> dry_run,
                  privileged |-> FALSE,
                  protected |-> {system_path}
                      \cup (IF prefix_protected THEN {conda_sh_path, prompt_path} ELSE {}),
                  elevated |-> 0, sent |-> <<>>, child |-> <<>>, log |-> <<>>,
                  disk |-> files, returned |-> "nothing"]

\* The plan the running process works on: the elevated process has its own
\* copy, read from its standard input or from the temporary file.
Running == IF run.pc = "elevated" THEN run.child ELSE plan

\* run_plan: a step that is done is passed over
SkipStep ==
    /\ (run.pc \in {"run_plan", "elevated"} /\ run.i <= Len(Running))
    /\ skipped(Running[run.i].result)
    /\ run' = [run EXCEPT !.i = @ + 1]
    /\ UNCHANGED <<on_win, shell, changeps1, environ, result, hist, edit, isdirs, call,
                   <<files, stdout, stderr>>, shells, plan>>

\* run_plan: the operation of a step is called and its result recorded
ExecuteStep ==
    LET
        \* The write of a privileged process, or to a path that is not protected.
        writable(target_path, privileged, protected) ==
            privileged \/ target_path \notin protected
    IN
    /\ (run.pc \in {"run_plan", "elevated"} /\ run.i <= Len(Running))
    /\ ~skipped(Running[run.i].result)
    /\ LET step == Running[run.i]
           out == call_function(step, files, run.dry_run,
                                writable(step.target_path, run.privileged, run.protected))
           value == recorded(out)
           entry == [step |-> run.i, privileged |-> run.privileged,
                     previous |-> step.result, result |-> value, raised |-> out.raised]
       IN  /\ files' = out.files
           /\ IF run.pc = "elevated"
              THEN /\ run' = [run EXCEPT !.child[run.i].result = value, !.i = @ + 1,
                                         !.log = Append(@, entry)]
                   /\ UNCHANGED plan
              ELSE /\ plan' = [plan EXCEPT ![run.i].result = value]
                   /\ run' = [run EXCEPT !.i = @ + 1, !.log = Append(@, entry)]
    /\ UNCHANGED <<on_win, shell, changeps1, environ, result, hist, edit, isdirs, call,
                   stdout, stderr, shells>>

\* run_plan_elevated: the plan is handed to a process with elevated
\* privileges
Elevate ==
    /\ run.pc = "run_plan"
    /\ run.i > Len(plan)
    /\ elevates(run.dry_run, plan)
    /\ run' = [run EXCEPT !.pc = "elevated", !.i = 1, !.privileged = TRUE,
                          !.sent = plan, !.child = plan, !.elevated = @ + 1]
    /\ files' = IF on_win
                THEN (temp_path :> << <<"json.dumps(plan)">> >>) @@ files
                ELSE files
    /\ UNCHANGED <<on_win, shell, changeps1, environ, result, hist, edit, isdirs, call,
                   stdout, stderr, shells, plan>>

\* run_plan_elevated: the elevated process cannot be started
ElevationRefused ==
    /\ run.pc = "run_plan"
    /\ run.i > Len(plan)
    /\ elevates(run.dry_run, plan)
    /\ run' = [run EXCEPT !.pc = "raised"]
    /\ UNCHANGED <<on_win, shell, changeps1, environ, result, hist, edit, isdirs, call,
                   <<files, stdout, stderr>>, shells, plan>>

\* run_plan_elevated: the plan is replaced by the one the elevated process
\* wrote back
ElevatedReturn ==
    /\ run.pc = "elevated"
    /\ run.i > Len(run.child)
    /\ plan' = run.child
    /\ run' = [run EXCEPT !.pc = "print", !.privileged = FALSE]
    /\ files' = IF on_win THEN rm_rf(temp_path, files) ELSE files
    /\ UNCHANGED <<on_win, shell, changeps1, environ, result, hist, edit, isdirs, call,
                   stdout, stderr, shells>>

\* run_plan_elevated: the elevated process ends in an error (assert rc == 0
\* on Windows, no plan on its standard output elsewhere); the plan stays
\* as it was
ElevatedFails ==
    /\ run.pc = "elevated"
    /\ run' = [run EXCEPT !.pc = "raised", !.privileged = FALSE]
    /\ files' = IF on_win THEN rm_rf(temp_path, files) ELSE files
    /\ UNCHANGED <<on_win, shell, changeps1, environ, result, hist, edit, isdirs, call,
                   stdout, stderr, shells, plan>>

\* initialize: the results are printed; 1 is returned if a step still
\* needs elevation
Return ==
    /\ \/ run.pc = "print"
       \/ run.pc = "run_plan" /\ run.i > Len(plan) /\ ~elevates(run.dry_run, plan)
    /\ stdout' = stdout \o [k \in 1..Len(plan) |-> <<plan[k].result, plan[k].target_path>>]
    /\ run' = [run EXCEPT !.pc = "done",
                          !.returned = IF needs_sudo(plan) THEN "1" ELSE "None"]
    /\ UNCHANGED <<on_win, shell, changeps1, environ, result, hist, edit, isdirs, call,
                   files, stderr, shells, plan>>

NextPlan ==
    \/ SkipStep
    \/ ExecuteStep
    \/ Elevate
    \/ ElevationRefused
    \/ ElevatedReturn
    \/ ElevatedFails
    \/ Return

SpecPlan == InitPlan /\ [][NextPlan]_vars

----------------------------------------------------------------------------
(* C26: a plan is resumed, not run again *)

Executions == {run.log[n] : n \in 1..Len(run.log)}

Completions(k) ==
    {n \in 1..Len(run.log) :
        run.log[n].step = k /\ run.log[n].result \in {MODIFIED, NO_CHANGE}}

\* A result of MODIFIED or NO_CHANGE, once recorded, stays as it is.
ResultsKept ==
    \A k \in 1..Len(plan) :
        \A n \in Completions(k) :
            /\ plan[k].result \in {run.log[n].result, NEEDS_SUDO}
            /\ plan[k].result = NEEDS_SUDO =>
                   run.pc \in {"elevated", "raised"} /\ run.log[n].privileged
            /\ run.pc = "elevated" /\ ~run.log[n].privileged =>
                   run.child[k].result = run.log[n].result

\* C26: run_plan calls the operation of a step only if the step has no
\* result or NEEDS_SUDO, and a recorded MODIFIED or NO_CHANGE stays as it
\* is; so over the unprivileged pass and the elevated pass each step's
\* operation completes at most once, and the elevated process runs only the
\* steps the unprivileged pass left at NEEDS_SUDO.
C26_ResumablePlan ==
    /\ \A e \in Executions :
           /\ e.previous \in {"none", NEEDS_SUDO}
           /\ e.privileged <=> e.previous = NEEDS_SUDO
    /\ \A k \in 1..Len(plan) : Cardinality(Completions(k)) <= 1
    /\ ResultsKept
    /\ run.elevated <= 1

\* Of two steps the unprivileged pass completed the first and left the
\* second at NEEDS_SUDO; the elevated pass passed over the first and
\* completed the second.
C26_Witness ==
    /\ run.pc = "done"
    /\ run.elevated = 1
    /\ Len(plan) = 2
    /\ Len(run.log) = 3
    /\ run.log[1] = [step |-> 1, privileged |-> FALSE, previous |-> "none",
                     result |-> MODIFIED, raised |-> "none"]
    /\ run.log[2].step = 2 /\ run.log[2].result = NEEDS_SUDO /\ ~run.log[2].privileged
    /\ run.log[3].step = 2 /\ run.log[3].result = MODIFIED /\ run.log[3].privileged
    /\ plan[1].result = MODIFIED
    /\ plan[2].result = MODIFIED

----------------------------------------------------------------------------
(* C27: dry-run *)

Results == {NEEDS_SUDO, MODIFIED, NO_CHANGE}

----------------------------------------------------------------------------
(* C28: the editor on a path without the old environment's first directory *)

Edited == edit.op = "replace" /\ edit.old # None

\* The index of the first entry equal to the old environment's first
\* directory, and of the first entry equal to its last one; 0 if none.
FirstAt == index_of_path(edit.path, get_path_dirs2(edit.old)[1])

LastAt == index_of_path(edit.path, Last(get_path_dirs2(edit.old)))

NewDirs == IF edit.new = None THEN <<>> ELSE get_path_dirs2(edit.new)

\* C28: when no entry of the path equals the old environment's first
\* directory, a removal returns the path unchanged and a replacement
\* returns the new environment's directories followed by the path; no
\* error is raised.
C28_ForeignPathTolerated ==
    (Edited /\ FirstAt = 0) =>
        /\ ~edit.out.raised
        /\ edit.out.path = NewDirs \o edit.path

\* On Windows A was replaced by B on a path that holds A's last directory
\* but not its first one.
C28_Witness ==
    /\ Edited
    /\ on_win
    /\ edit.old = EnvA
    /\ edit.new = EnvB
    /\ edit.path = << <<"usr", "bin">>, Last(get_path_dirs2(EnvA)) \o <<"">> >>
    /\ ~edit.out.raised
    /\ edit.out.path = get_path_dirs2(EnvB) \o edit.path

----------------------------------------------------------------------------
(* C29: the range the editor deletes *)

\* C29: when the old environment's first directory is found at index f, the
\* editor goes on only if its last directory is found at an index l >= f,
\* and then what it deletes is exactly the entries f..l; otherwise its
\* assertion fails.
C29_RangeAsserted ==
    (Edited /\ FirstAt # 0) =>
        IF LastAt # 0 /\ LastAt >= FirstAt
        THEN /\ ~edit.out.raised
             /\ edit.out.path = SubSeq(edit.path, 1, FirstAt - 1) \o NewDirs
                                    \o SubSeq(edit.path, LastAt + 1, Len(edit.path))
        ELSE edit.out.raised

----------------------------------------------------------------------------
(* C30: the entries the editor leaves alone *)

\* The last index of the range deleted: nothing is deleted when the first
\* directory is not found, or the last one lies before it.
RangeStart == IF FirstAt = 0 THEN 1 ELSE FirstAt

RangeEnd == IF FirstAt = 0 \/ LastAt < FirstAt THEN RangeStart - 1 ELSE LastAt

\* C30: when the editor returns, every entry before the first occurrence of
\* the old environment's first directory keeps its index, every entry
\* after the located last directory follows in its original order, also
\* when it is a stale duplicate of one of the old environment's
\* directories, and nothing else remains of the path: one range is removed
\* per call.
C30_RemovalIsPositional ==
    (Edited /\ ~edit.out.raised) =>
        LET out == edit.out.path
            kept == Len(edit.path) - (RangeEnd - RangeStart + 1)
            shift == Len(NewDirs) - (RangeEnd - RangeStart + 1)
        IN  /\ Len(out) = kept + Len(NewDirs)
            /\ \A q \in 1..(RangeStart - 1) : out[q] = edit.path[q]
            /\ \A q \in (RangeEnd + 1)..Len(edit.path) : out[q + shift] = edit.path[q]

\* A was removed from a path that holds A's block and, after a foreign
\* directory, a stale copy of A's last directory, which stays.
C30_Witness ==
    /\ Edited
    /\ edit.old = EnvA
    /\ edit.new = None
    /\ edit.path = get_path_dirs2(EnvA)
                       \o << <<"usr", "bin">>, Last(get_path_dirs2(EnvA)) \o <<"">> >>
    /\ ~edit.out.raised
    /\ edit.out.path = << <<"usr", "bin">>, Last(get_path_dirs2(EnvA)) \o <<"">> >>

----------------------------------------------------------------------------
(* C31: the editor with a null old or a null new environment *)

\* C31: a replacement with no old environment returns what
\* _add_prefix_to_path returns, the new environment's directories in front
\* of the whole path; a replacement with no new environment returns what
\* _remove_prefix_from_path returns, the path without the old
\* environment's range and with nothing put in.
C31_NullEnvironments ==
    edit.op = "replace" =>
        /\ (edit.old = None /\ edit.new # None) =>
               /\ ~edit.out.raised
               /\ edit.out.path = add_prefix_to_path(edit.new, edit.path)
               /\ edit.out.path = get_path_dirs2(edit.new) \o edit.path
        /\ (edit.old # None /\ edit.new = None) =>
               /\ edit.out = remove_prefix_from_path(edit.old, edit.path)
               /\ ~edit.out.raised =>
                      edit.out.path = SubSeq(edit.path, 1, RangeStart - 1)
                                          \o SubSeq(edit.path, RangeEnd + 1, Len(edit.path))

\* B was put on a path that holds A's block with no old environment given:
\* A's block stays behind B's directories.
C31_Witness ==
    /\ edit.op = "replace"
    /\ edit.old = None
    /\ edit.new = EnvB
    /\ edit.path = << <<"usr", "bin">> >> \o get_path_dirs2(EnvA)
    /\ edit.out.path = get_path_dirs2(EnvB) \o << <<"usr", "bin">> >> \o get_path_dirs2(EnvA)

----------------------------------------------------------------------------
(* C32: the order in which scripts are discovered *)

\* The scripts are those of one directory d of one environment: each file
\* of it that has the dialect's extension once and no other file, by
\* ascending rank, or by descending rank.
Discovered(scripts, d, descending) ==
    scripts # <<>> =>
        \E prefix \in Prefixes :
            /\ \A i \in 1..Len(scripts) :
                   /\ scripts[i].prefix = prefix
                   /\ scripts[i].dir = d
                   /\ scripts[i].file \in listdir(prefix, d)
                   /\ scripts[i].file[2] = script_extension
            /\ \A f \in listdir(prefix, d) :
                   f[2] = script_extension => \E i \in 1..Len(scripts) : scripts[i].file = f
            /\ \A i, j \in 1..Len(scripts) :
                   i < j => IF descending
                            THEN scripts[i].file[1] > scripts[j].file[1]
                            ELSE scripts[i].file[1] < scripts[j].file[1]

\* C32: the setup scripts an operation schedules are the files of one
\* environment's activate.d that have the dialect's script extension, in
\* ascending order, and the teardown scripts it schedules are those of one
\* environment's deactivate.d, in descending order; the lists of an
\* environment are what discovery returns for it.
C32_DiscoveryOrder ==
    /\ result.raised = "none" =>
           /\ Discovered(result.activate_scripts, "activate.d", FALSE)
           /\ Discovered(result.deactivate_scripts, "deactivate.d", TRUE)
    /\ \A prefix \in Prefixes :
           /\ Discovered(get_activate_scripts(prefix), "activate.d", FALSE)
           /\ Discovered(get_deactivate_scripts(prefix), "deactivate.d", TRUE)
           /\ Len(get_activate_scripts(prefix))
                  = Cardinality({f \in listdir(prefix, "activate.d") : f[2] = script_extension})
           /\ Len(get_deactivate_scripts(prefix))
                  = Cardinality({f \in listdir(prefix, "deactivate.d") : f[2] = script_extension})

\* On posix A was deactivated: its two teardown scripts are scheduled, the
\* second one first, and the files with another extension are left out.
C32_Witness ==
    /\ shell = "posix"
    /\ result.raised = "none"
    /\ Len(result.deactivate_scripts) = 2
    /\ result.deactivate_scripts[1].prefix = EnvA
    /\ result.deactivate_scripts[1].file = <<2, ".sh">>
    /\ result.deactivate_scripts[2].file = <<1, ".sh">>
    /\ Cardinality(listdir(EnvA, "deactivate.d")) = 3

----------------------------------------------------------------------------
(* C33: prompt display disabled *)

\* C33: with context.changeps1 off, every instruction set of activate,
\* stack, deactivate and reactivate exports CONDA_PROMPT_MODIFIER, where it
\* exports it, as the empty string and sets no variable, and the shell's
\* PS1 stays what it was.
C33_PromptDisabled ==
    ~changeps1 =>
        /\ result.raised = "none" =>
               /\ result.set_vars = <<>>
               /\ Var("CONDA_PROMPT_MODIFIER") \in DOMAIN result.export_vars =>
                      result.export_vars[Var("CONDA_PROMPT_MODIFIER")] = <<>>
        /\ Var("PS1") \in DOMAIN environ => environ[Var("PS1")] = << <<"$ ">> >>
        /\ Var("CONDA_PROMPT_MODIFIER") \in DOMAIN environ =>
               environ[Var("CONDA_PROMPT_MODIFIER")] = <<>>

\* With prompt display off on posix, B was stacked on A: the modifier is
\* exported empty and PS1 is not set.
C33_Witness ==
    /\ ~changeps1
    /\ shell = "posix"
    /\ result.raised = "none"
    /\ Level = 2
    /\ Len(hist) = 2
    /\ hist[2].stacked
    /\ Var("CONDA_PROMPT_MODIFIER") \in DOMAIN result.export_vars
    /\ result.export_vars[Var("CONDA_PROMPT_MODIFIER")] = <<>>
    /\ result.set_vars = <<>>
    /\ environ[Var("PS1")] = << <<"$ ">> >>

----------------------------------------------------------------------------
(* C34: run_plan goes through the whole plan *)

\* What the unprivileged pass of run_plan has executed so far.
FirstPass == SelectSeq(run.log, LAMBDA e : ~e.privileged)

\* The number of steps the unprivileged pass has gone through.
PassedOver == IF run.pc = "run_plan" THEN run.i - 1 ELSE Len(plan)

\* C34: run_plan executes the steps in order and records a result for
\* each: NEEDS_SUDO exactly when the operation raised EnvironmentError,
\* and else what the operation returned; an EnvironmentError ends neither
\* the pass nor the process, so once run_plan has returned every step
\* carries NEEDS_SUDO, MODIFIED or NO_CHANGE, in the elevated process's
\* copy of the plan too.
C34_EveryStepRecorded ==
    run.pc # "none" =>
        /\ Len(FirstPass) = PassedOver
        /\ \A n \in 1..Len(FirstPass) :
               /\ FirstPass[n].step = n
               /\ FirstPass[n].result \in {NEEDS_SUDO, MODIFIED, NO_CHANGE}
               /\ FirstPass[n].result = NEEDS_SUDO <=> FirstPass[n].raised = "EnvironmentError"
        /\ \A k \in 1..PassedOver : plan[k].result \in {NEEDS_SUDO, MODIFIED, NO_CHANGE}
        /\ run.pc = "elevated" =>
               \A k \in 1..Len(run.child) :
                   run.child[k].result \in {NEEDS_SUDO, MODIFIED, NO_CHANGE}

\* The first step's operation raised EnvironmentError; the second step was
\* executed all the same and run_plan returned with a result on each.
C34_Witness ==
    /\ run.pc = "done"
    /\ run.elevated = 0
    /\ Len(plan) = 2
    /\ Len(run.log) = 2
    /\ run.log[1].step = 1 /\ run.log[1].raised = "EnvironmentError"
    /\ run.log[2].step = 2 /\ run.log[2].raised = "none"
    /\ plan[1].result = NEEDS_SUDO
    /\ plan[2].result \in {MODIFIED, NO_CHANGE}

----------------------------------------------------------------------------
(* C35: the plan and the elevated process *)

\* Steps a and b are the same operation on the same file.
SameStep(a, b) == a.function = b.function /\ a.target_path = b.target_path

\* What the elevated process recorded for step k.
ElevatedResults(k) ==
    {run.log[n].result : n \in {m \in 1..Len(run.log) :
                                    run.log[m].privileged /\ run.log[m].step = k}}

----------------------------------------------------------------------------
(* An operation of the plan called twice in a row, dry-run off: the first  *)
(* step's operation is called, and called again on the disk it left.       *)

CallAgain ==
    /\ run.pc = "run_plan"
    /\ ~run.dry_run
    /\ Len(plan) >= 1
    /\ Len(run.log) < 2
    /\ \E out \in {call_function(plan[1], files, FALSE,
                                 plan[1].target_path \notin run.protected)} :
           /\ files' = out.files
           /\ plan' = [plan EXCEPT ![1].result = recorded(out)]
           /\ run' = [run EXCEPT !.log = Append(@, [step |-> 1,
                                                    result |-> recorded(out),
                                                    raised |-> out.raised,
                                                    files |-> out.files])]
    /\ UNCHANGED <<on_win, shell, changeps1, environ, result, hist, edit, isdirs, call,
                   stdout, stderr, shells>>

SpecAgain == InitPlan /\ [][CallAgain]_vars

----------------------------------------------------------------------------
(* C36: the operations of a plan are idempotent *)

\* The operation was called twice and its first call succeeded.
CalledAgain == Len(run.log) = 2 /\ run.log[1].raised = "none"

\* C36: when an operation is called again right after a call of it that
\* succeeded, the second call leaves the disk as the first one left it and
\* returns NO_CHANGE.
C36_Idempotent ==
    CalledAgain =>
        /\ run.log[2].files = run.log[1].files
        /\ run.log[2].result = NO_CHANGE

\* The same for every operation but install_anaconda_prompt, whose second
\* call leaves the disk as it was and returns MODIFIED.
IdempotentButPrompt ==
    CalledAgain =>
        /\ run.log[2].files = run.log[1].files
        /\ run.log[2].result =
               IF plan[1].function = "install_anaconda_prompt" THEN MODIFIED ELSE NO_CHANGE

----------------------------------------------------------------------------
(* C37: CONDA_PREFIX and the level *)

\* C37: in every state reached from level 0, CONDA_PREFIX is set exactly
\* when the level is 1 or more, and then it is the environment of the
\* latest push that was not popped; there are as many such pushes as the
\* level says.
C37_PrefixTracksLevel ==
    /\ Var("CONDA_PREFIX") \in DOMAIN environ <=> Level >= 1
    /\ Len(hist) = Level
    /\ Level >= 1 => environ[Var("CONDA_PREFIX")] = Last(hist).prefix

\* An environment was activated on top of A and deactivated again:
\* CONDA_PREFIX names A, the push that is left.
C37_Witness ==
    /\ Level = 1
    /\ Len(hist) = 1
    /\ hist[1].prefix = EnvA
    /\ environ[Var("CONDA_PREFIX")] = EnvA
    /\ result.raised = "none"
    /\ result.unset_vars = <<LevelVar("CONDA_PREFIX_", 1)>>
    /\ result.export_vars[Var("CONDA_SHLVL")] = 1
    /\ result.export_vars[Var("CONDA_PREFIX")] = EnvA
    /\ result.activate_scripts = get_activate_scripts(EnvA)

----------------------------------------------------------------------------
(* C38: without --stack the scheduled script runs of each environment      *)
(* alternate between setup and teardown                                    *)

\* activate, deactivate and reactivate from level 0, never --stack.
NextPlain == Activate \/ Deactivate \/ Reactivate

SpecPlain == Init /\ [][NextPlain]_vars

\* The environment whose setup scripts were the last of its scripts to be
\* scheduled: without --stack it is the one CONDA_PREFIX names.
SetUp(env, prefix) ==
    conda_shlvl(env) >= 1 /\ Get(env, Var("CONDA_PREFIX")) = prefix

\* C38: in every step of activate (without --stack), deactivate and
\* reactivate from level 0, teardown scripts are scheduled only for an
\* environment that is set up, setup scripts are scheduled for an
\* environment that is set up only behind its own teardown scripts in the
\* same instruction set, an environment that stops being set up has its
\* teardown scripts scheduled and one that becomes set up its setup scripts:
\* so each environment's scheduled runs alternate, beginning with setup.
C38_ScriptsAlternate ==
    [][ /\ \A i \in 1..Len(result'.deactivate_scripts) :
               SetUp(environ, result'.deactivate_scripts[i].prefix)
        /\ \A i \in 1..Len(result'.activate_scripts) :
               LET prefix == result'.activate_scripts[i].prefix
               IN  /\ SetUp(environ', prefix)
                   /\ SetUp(environ, prefix) =>
                          result'.deactivate_scripts = get_deactivate_scripts(prefix)
        /\ \A prefix \in Prefixes :
               /\ SetUp(environ, prefix) /\ ~SetUp(environ', prefix) =>
                      result'.deactivate_scripts = get_deactivate_scripts(prefix)
               /\ SetUp(environ', prefix) /\ ~SetUp(environ, prefix) =>
                      result'.activate_scripts = get_activate_scripts(prefix)
               /\ SetUp(environ, prefix) /\ SetUp(environ', prefix) =>
                      \/ /\ result'.deactivate_scripts = <<>>
                         /\ result'.activate_scripts = <<>>
                      \/ /\ result'.deactivate_scripts = get_deactivate_scripts(prefix)
                         /\ result'.activate_scripts = get_activate_scripts(prefix)
      ]_vars

\* A was activated on top of B and deactivated again: the teardown scripts
\* of A and, a second time, the setup scripts of B are scheduled.
C38_Witness ==
    /\ Level = 1
    /\ hist[1].prefix = EnvB
    /\ ~hist[1].stacked
    /\ result.raised = "none"
    /\ result.export_vars[Var("CONDA_SHLVL")] = 1
    /\ result.deactivate_scripts = get_deactivate_scripts(EnvA)
    /\ result.deactivate_scripts # <<>>
    /\ result.activate_scripts = get_activate_scripts(EnvB)
    /\ result.activate_scripts # <<>>

----------------------------------------------------------------------------
(* C39: a stack/deactivate pair schedules the setup scripts of the         *)
(* environment below a second time and never its teardown scripts          *)

\* stack(target) on the current environment, then the deactivate() that
\* pops it: no teardown script is scheduled by the stack, the pop schedules
\* the setup scripts of the environment below and no teardown script of it.
StackPairSchedules(env, target) ==
    LET below == Get(env, Var("CONDA_PREFIX"))
        pushed == build_stack(env, target)
        stacked == Run(env, pushed)
        popped == build_deactivate(stacked)
    IN  /\ pushed.raised = "none"
        /\ pushed.deactivate_scripts = <<>>
        /\ popped.raised = "none"
        /\ popped.activate_scripts = get_activate_scripts(below)
        /\ \A i \in 1..Len(popped.deactivate_scripts) :
               popped.deactivate_scripts[i].prefix # below

\* C39: with A current at level L >= 1 and B neither A nor the environment
\* recorded one level below, stack(B) schedules no teardown scripts and the
\* deactivate() that pops B schedules A's setup scripts again and none of
\* A's teardown scripts.
C39_StackPair ==
    Level >= 1 =>
        \A target \in Prefixes :
            (/\ ~reenters(Get(environ, Var("CONDA_PREFIX")), target, Level)
             /\ ~steps_back_down(environ, target, Level))
                => StackPairSchedules(environ, target)

\* The claim as stated, for every B different from A.
C39_StackPairAnyTarget ==
    Level >= 1 =>
        \A target \in Prefixes \ {Get(environ, Var("CONDA_PREFIX"))} :
            StackPairSchedules(environ, target)

\* B was stacked on A and popped again: the pop has scheduled the setup
\* scripts of A, which its activation had scheduled before.
C39_Witness ==
    /\ Level = 1
    /\ hist[1].prefix = EnvA
    /\ environ[Var("CONDA_PREFIX")] = EnvA
    /\ result.raised = "none"
    /\ result.unset_vars = <<LevelVar("CONDA_PREFIX_", 1), LevelVar("CONDA_STACKED_", 2)>>
    /\ result.deactivate_scripts = get_deactivate_scripts(EnvB)
    /\ result.activate_scripts = get_activate_scripts(EnvA)
    /\ result.activate_scripts # <<>>
    /\ StackPairSchedules(environ, EnvB)

----------------------------------------------------------------------------
(* C40: the prompt of the POSIX and csh dialects, prompt display enabled   *)

\* The name of the prompt variable in the dialect.
prompt_var == IF shell = "csh" THEN Var("prompt") ELSE Var("PS1")

\* self.environ.get('PS1', '') and self.environ.get('prompt', '')
PromptOf(env) == IF prompt_var \in DOMAIN env THEN env[prompt_var] ELSE <<>>

\* The prompt modifiers the environments can give.
Modifiers == {prompt_modifier_always(prefix, default_env(prefix)) : prefix \in Prefixes}

\* A shell of either dialect at level 0 whose prompt is unset, plain, holds
\* a quote or holds the text of a modifier; call.arg keeps that prompt.  A
\* csh prompt holds no quote: set prompt='...' cannot be read with one.
InitPrompt ==
    LET Prompts ==
            { <<>>,
              << <<"$ ">> >>,
              << <<"it">>, <<"'">>, <<"s $ ">> >>,
              << <<"(", "A", ") ">>, <<"$ ">>, <<"(", "A", ") ">> >> }
    IN
    /\ on_win = FALSE
    /\ shell \in {"posix", "csh"}
    /\ changeps1 = TRUE
    /\ \E original \in Prompts, unset \in BOOLEAN :
           /\ shell = "csh" => <<"'">> \notin {original[i] : i \in 1..Len(original)}
           /\ unset => original = <<>>
           /\ environ = (Var("PATH") :> << <<"usr", "bin">> >>)
                            @@ (IF unset THEN <<>> ELSE (prompt_var :> original))
           /\ call = [op |-> "none", arg |-> original, out |-> <<>>]
    /\ result = Raised("no builder has run")
    /\ hist = <<>>
    /\ edit = NoEdit
    /\ isdirs = AllDirs
    /\ InitProcess
    /\ InitIdle

SpecPrompt == InitPrompt /\ [][Next]_vars

\* The pieces of a prompt.
Pieces(prompt) == {prompt[i] : i \in 1..Len(prompt)}

\* A modifier at the head of a prompt: the empty modifier adds nothing.
Headed(modifier, prompt) ==
    IF modifier = None \/ modifier = <<>> THEN prompt ELSE <<modifier>> \o prompt

\* Each operation leaves the prompt variable holding the new modifier and
\* then the old prompt without any occurrence of the previous modifier.
PromptStep ==
    LET previous == Get(environ, Var("CONDA_PROMPT_MODIFIER"))
        current == Get(environ', Var("CONDA_PROMPT_MODIFIER"))
    IN  PromptOf(environ') =
            Headed(current, SelectSeq(PromptOf(environ), LAMBDA piece : piece # previous))

\* With an original prompt that holds no modifier text and no quote, the
\* prompt is the current modifier and then the original prompt; at level 0
\* it is the original prompt.
PromptIsModified ==
    (Pieces(call.arg) \cap (Modifiers \cup {<<"'">>}) = {}) =>
        /\ PromptOf(environ) = Headed(Get(environ, Var("CONDA_PROMPT_MODIFIER")), call.arg)
        /\ Level = 0 => PromptOf(environ) = call.arg

\* C40: for the POSIX and csh dialects with prompt display enabled, each
\* operation sets the prompt variable to the new prompt modifier followed by
\* the old prompt with every occurrence of the previous
\* CONDA_PROMPT_MODIFIER removed; and if the original prompt contains no
\* modifier text and no quote character, after any sequence of activate,
\* stack, deactivate and reactivate the prompt is the current modifier
\* followed by the original prompt, and at level 0 the original prompt.
C40_PromptInvariant == [][PromptStep]_vars /\ []PromptIsModified

\* A csh shell with a plain prompt has unwound to level 0: the deactivate
\* has set the prompt to the original one.
C40_Witness ==
    /\ shell = "csh"
    /\ call.arg = << <<"$ ">> >>
    /\ Level = 0
    /\ result.raised = "none"
    /\ Var("CONDA_SHLVL") \in DOMAIN result.export_vars
    /\ result.export_vars[Var("CONDA_SHLVL")] = 0
    /\ result.set_vars[Var("prompt")] = call.arg
    /\ environ[Var("prompt")] = call.arg

====
